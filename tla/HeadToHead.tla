----------------------------- MODULE HeadToHead -----------------------------
(***************************************************************************)
(* services/h2h.py: the meetings of two teams, beside the league table of  *)
(* Standings that reads the same table of matches.  The query of the head  *)
(* to head has no condition on the stage: it takes the meetings of every   *)
(* stage, season and competition, the league table those of one stage.     *)
(* compute reads in one query, so it is a function of the rows.            *)
(***************************************************************************)
EXTENDS Standings

CONSTANTS Kickoff,   \* when each fixture kicks off
          Limit      \* how many meetings the query returns at most (10)

ASSUME KickoffsAreTimes == Kickoff \in [Fixtures -> Int]
ASSUME SomeMeetings == Limit \in Nat \ {0}

\* The query takes what has been played to the end, at either ground and in whatever
\* stage; a match that was walked over is none.
MeetingsOf_of_the_stage(a, b) ==
  {f \in Fixtures : /\ StageOf[f] = Stage /\ matches[f].status = "full_time"
                    /\ {HomeTeam[f], AwayTeam[f]} = {a, b}}
MeetingsOf(a, b) ==
  {f \in Fixtures : matches[f].status = "full_time" /\ {HomeTeam[f], AwayTeam[f]} = {a, b}}

\* What it may return: the latest first, those of one time in any order.
LatestFirst(s) == \A i, j \in DOMAIN s : i < j => Kickoff[s[i]] >= Kickoff[s[j]]
Lists(a, b) ==
  {SubSeq(s, 1, IF Len(s) < Limit THEN Len(s) ELSE Limit) :
     s \in {t \in SetToSeqs(MeetingsOf(a, b)) : LatestFirst(t)}}

\* The loop over the list: who has won a meeting, told from team a.
WonByA(f, a) ==
  LET m == matches[f] IN
  \/ m.home > m.away /\ HomeTeam[f] = a
  \/ m.home < m.away /\ AwayTeam[f] = a
Drawn(f) == matches[f].home = matches[f].away

compute(a, list) ==
  LET count(P(_)) == Cardinality({i \in DOMAIN list : P(list[i])}) IN
  [total |-> Len(list),
   team_a_wins |-> count(LAMBDA f : WonByA(f, a)),
   draws |-> count(Drawn),
   team_b_wins |-> count(LAMBDA f : ~WonByA(f, a) /\ ~Drawn(f))]

-----------------------------------------------------------------------------
\* The matches that t has won without playing them to the end.
AwardedTo(t) == {x \in Having(Met, t, "W") : matches[x[1]].status = "walkover"}
Beaten(t, lists) == SumFunction([u \in DOMAIN lists |-> compute(t, lists[u]).team_a_wins])
\* The wins that the tables of the other stages give t, walkovers left out.
WonElsewhere(t) ==
  {x \in Having(Fixtures \X Side, t, "W") :
     StageOf[x[1]] # Stage /\ matches[x[1]].status = "full_time"}
\* services/h2h.py:63 and services/standings.py:83 tell the winner of a match from its
\* row, each in its own way, and only the second (standings.py:168) asks for its stage.
\* When a stage's table has met every match, the wins over the single opponents are
\* those of this table but for the walkovers and those of the tables of all other
\* stages, and no more even if the query has cut the lists.
WinsAgreeWithTables ==
  todo = {} => \A t \in DOMAIN team_map :
    LET opponents == Teams \ {t}
        won == team_map[t].won - Cardinality(AwardedTo(t))
        won_in_all == won + Cardinality(WonElsewhere(t)) IN
    \A lists \in [opponents -> UNION {Lists(t, u) : u \in opponents}] :
      (\A u \in opponents : lists[u] \in Lists(t, u)) =>
        /\ Beaten(t, lists) <= won_in_all
        /\ (\A u \in opponents : Len(lists[u]) = Cardinality(MeetingsOf(t, u)))
             => Beaten(t, lists) = won_in_all
=============================================================================
