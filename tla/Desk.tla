-------------------------------- MODULE Desk --------------------------------
(***************************************************************************)
(* The desk around the matches: reports of the users and their review      *)
(* (routers/moderation.py), the news (routers/news.py), and the favourites *)
(* of the users (routers/auth.py).  An instant is named by the request     *)
(* that reads the clock.                                                   *)
(***************************************************************************)
EXTENDS Records

\* The handlers, as the statements they run.
submit_report   == <<"insert">>
review_item     == <<"get", "review">>
create_article  == <<"slug", "insert">>
update_article  == <<"get", "edit">>
delete_article  == <<"delete", "referenced">>
add_favorite    == <<"insert">>
remove_favorite == <<"own", "discard">>

-----------------------------------------------------------------------------
\* A report that nobody has reviewed, and the reports that earlier requests have left.
IsOpen(x) == x.status = "open" /\ x.reviewer = None /\ x.reviewed_at = None
ASSUME ReportsAreWhole ==
  \A x \in DOMAIN Rows0 :
    Rows0[x].table = "moderation_items" /\ Rows0[x].status = "open" => IsOpen(Rows0[x])

\* review_item reviews again what is reviewed already.
Review_without_reviewer(r) ==
  At(r, "review") /\ Change(r, [status |-> Body(r).status, reviewed_at |-> r])
Decision(r) == [status |-> Body(r).status, reviewer |-> Body(r).reviewer, reviewed_at |-> r]
Review(r) == At(r, "review") /\ Change(r, Decision(r))

\* get_by_slug: the slug of a title, a sequence of words, gets a random suffix, the name
\* of its request, when an article has it.
IsTitle(slug) ==
  LET words == {slug[i] : i \in DOMAIN slug} IN slug \in Seq(words) /\ words \cap Req = {}
ASSUME SlugsAreTitles ==
  \A x \in DOMAIN Rows0 : Rows0[x].table = "articles" => IsTitle(Rows0[x].slug)
Titled(slug) == {a \in Table("articles") : rows[a].slug = slug}
ChooseSlug_without_suffix(r) == At(r, "slug") /\ Proceed(r) /\ UNCHANGED rows
ChooseSlug(r) ==
  /\ At(r, "slug")
  /\ LET slug == req[r].row.slug IN
     req' = [req EXCEPT ![r].todo = Tail(@),
                        ![r].row.slug = IF Titled(slug) = {} THEN slug ELSE Append(slug, r)]
  /\ UNCHANGED rows

\* Whatever sets the status to published sets the time of publication, again too.
Edits(r) ==
  LET c == Body(r).columns IN
  IF "status" \in DOMAIN c /\ c.status = "published" THEN Over([published_at |-> r], c) ELSE c
EditArticle(r) == At(r, "edit") /\ Change(r, Edits(r))

-----------------------------------------------------------------------------
\* A favourite is looked for among the user's own.
FindOwn_of_anybody(r) ==
  /\ At(r, "own")
  /\ IF Body(r).id \in Table("favorites") THEN Proceed(r) ELSE Answer(r, 404)
  /\ UNCHANGED rows
FindOwn(r) ==
  /\ At(r, "own")
  /\ LET f == Body(r).id IN
     IF f \in Table("favorites") /\ rows[f].user = Body(r).user THEN Proceed(r)
     ELSE Answer(r, 404)
  /\ UNCHANGED rows

\* The session's own delete: to find nobody there any more is only worth a warning.
Discard(r) ==
  /\ At(r, "discard")
  /\ Updatable(r, Body(r).id)
  /\ req' = [req EXCEPT ![r].todo = Tail(@), ![r].gone = {Body(r).id} \cap DOMAIN rows]
  /\ UNCHANGED rows

Errand(r) == Review(r) \/ ChooseSlug(r) \/ EditArticle(r) \/ FindOwn(r) \/ Discard(r)
=============================================================================
