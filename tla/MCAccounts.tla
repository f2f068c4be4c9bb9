----------------------------- MODULE MCAccounts -----------------------------
(* An administrator and one registered user, who has signed in and asked for a *)
(* password reset before; three requests.                                      *)
EXTENDS Accounts, TLC

CONSTANTS alice, root, old, r1, r2, r3

Account(email, username, role) ==
  [email |-> email, phone |-> None, username |-> username, pw |-> "p0", active |-> TRUE,
   avatar |-> None, role |-> role]
TwoAccounts == root :> Account("root@x", None, "admin") @@ alice :> Account("a@x", "a", "user")
FirstToken == [type |-> "refresh", user |-> alice, role |-> "user", at |-> 0]
OldToken == old :> [hash |-> FirstToken, revoked |-> FALSE]
OldReset == old :> [user |-> alice, expires |-> 1]
Names == "a@x" :> "a" @@ "b@x" :> "b"
Limits == [register |-> 2, login |-> 2, forgot |-> 1, google |-> 2]

Register(e, p, u) == [kind |-> "register", email |-> e, phone |-> p, username |-> u, pw |-> "p1"]
Staff(caller, e, u) == [kind |-> "create_staff", caller |-> caller, email |-> e, phone |-> None,
                        username |-> u, pw |-> "p1", role |-> "admin"]
Sign(kind, e, u, pw, dashboard) ==
  [kind |-> kind, email |-> e, phone |-> None, username |-> u, pw |-> pw, dashboard |-> dashboard]
Rename(u) == [kind |-> "update_me", caller |-> alice, username |-> u]
Admin(caller, user, role, active) ==
  [kind |-> "update_user", caller |-> caller, user |-> user, role |-> role, active |-> active]
Google(e, picture) == [kind |-> "google", email |-> e, picture |-> picture]
Refresh(at) == [kind |-> "refresh", token |-> [FirstToken EXCEPT !.at = at]]
AccessToken == [kind |-> "refresh", token |-> [FirstToken EXCEPT !.type = "access"]]
Forget(e) == [kind |-> "forgot", email |-> e]
Reset(x, pw) == [kind |-> "reset", token |-> x, pw |-> pw]

\* new accounts that want the same keys
Registrations ==
  {Register("b@x", None, "b"), Register("c@x", "1", "b"),
   Staff(root, "b@x", "b"), Google("b@x", None), Rename("b")}
\* the columns of one account, written from every side
Changes ==
  {Admin(root, alice, None, FALSE), Rename("c"), Google("a@x", "new"), Reset(old, "p1")}
\* administrators made and unmade while they act; old is nobody's id
Promotions ==
  {Admin(root, alice, "admin", TRUE), Admin(alice, root, "user", None), Staff(alice, None, "c"),
   Admin(root, old, None, FALSE)}
SignIns ==
  {Sign("login", "a@x", None, "p0", FALSE), Sign("login", None, "a", "p1", FALSE),
   Sign("admin_login", "a@x", None, "p0", TRUE), Sign("admin_login", "root@x", None, "p0", FALSE),
   Admin(root, alice, "admin", FALSE), Reset(old, "p1")}
Rotations ==
  {Refresh(0), Refresh(1), AccessToken, Register(None, None, "c"),
   Sign("login", "a@x", None, "p0", FALSE)}
Resettings ==
  {Reset(old, "p1"), Forget("a@x"), Forget("b@x")} \cup {Reset(r, "p2") : r \in Req}

AllMixes == {Registrations, Changes, Promotions, SignIns, Rotations, Resettings}
Requests == {r1, r2, r3}
Alike == Permutations(Requests)
=============================================================================
