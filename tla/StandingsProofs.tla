--------------------------- MODULE StandingsProofs ---------------------------
(***************************************************************************)
(* Proofs about Standings and HeadToHead, for every set of teams, fixtures *)
(* and results, and every order in which the queries deliver them.         *)
(***************************************************************************)
EXTENDS HeadToHead, FiniteSetTheorems, SequenceTheorems, TLAPS

LEMMA WinnerIsSide == ASSUME NEW m PROVE WalkoverWinner(m) \in Side
  BY DEF WalkoverWinner, Other, Side

LEMMA OtherIsSide == ASSUME NEW side \in Side PROVE Other(side) \in Side
  BY DEF Other, Side

LEMMA ScoreType == ASSUME NEW m \in Row, NEW side \in Side PROVE ScoreOf(m, side) \in Int
  BY DEF ScoreOf, Row

LEMMA OutcomeType == ASSUME NEW m, NEW side PROVE Outcome(m, side) \in {"W", "D", "L"}
  BY DEF Outcome

\* A match added to an entry that adds up leaves one that adds up.
LEMMA CreditAddsUp ==
  ASSUME NEW e \in Entries, AddsUp(e), NEW m \in Row, NEW side \in Side
  PROVE  Credit(e, m, side) \in Entries /\ AddsUp(Credit(e, m, side))
<1> DEFINE o == Outcome(m, side)
<1>1. o \in {"W", "D", "L"} /\ ScoreOf(m, side) \in Int /\ ScoreOf(m, Other(side)) \in Int
  BY OutcomeType, OtherIsSide, ScoreType
<1>2. /\ e.played \in Nat /\ e.won \in Nat /\ e.drawn \in Nat /\ e.lost \in Nat
      /\ e.points \in Nat /\ e.gf \in Int /\ e.ga \in Int /\ e.gd \in Int
  BY DEF Entries
<1>3. /\ Append(e.form, o) \in Seq({"W", "D", "L"})
      /\ Len(Append(e.form, o)) = Len(e.form) + 1
  <2>1. e.form \in Seq({"W", "D", "L"})
    BY DEF Entries
  <2> QED
    BY <1>1, <2>1
<1>4. PICK w, d, l \in Nat :
        /\ w = One(o = "W") /\ d = One(o = "D") /\ l = One(o = "L")
        /\ w + d + l = 1 /\ Points(o) = 3 * w + d
  <2>1. CASE o = "W"
    <3> WITNESS 1 \in Nat, 0 \in Nat, 0 \in Nat
    <3> QED
      BY <2>1 DEF Points, One
  <2>2. CASE o = "D"
    <3> WITNESS 0 \in Nat, 1 \in Nat, 0 \in Nat
    <3> QED
      BY <2>2 DEF Points, One
  <2>3. CASE o = "L"
    <3> WITNESS 0 \in Nat, 0 \in Nat, 1 \in Nat
    <3> QED
      BY <2>3 DEF Points, One
  <2> QED
    BY <1>1, <2>1, <2>2, <2>3
<1>5. Credit(e, m, side) =
        [played |-> e.played + 1, won |-> e.won + w, drawn |-> e.drawn + d,
         lost |-> e.lost + l, gf |-> e.gf + ScoreOf(m, side),
         ga |-> e.ga + ScoreOf(m, Other(side)), gd |-> e.gd, points |-> e.points + (3 * w + d),
         form |-> Append(e.form, o)]
  BY <1>4, Zenon DEF Credit
<1>6. /\ e.played + 1 \in Nat /\ e.won + w \in Nat /\ e.drawn + d \in Nat
      /\ e.lost + l \in Nat /\ e.points + (3 * w + d) \in Nat
      /\ e.gf + ScoreOf(m, side) \in Int /\ e.ga + ScoreOf(m, Other(side)) \in Int
  BY <1>1, <1>2
<1>7. Credit(e, m, side) \in Entries
  <2> HIDE DEF o
  <2> QED
    BY <1>2, <1>3, <1>5, <1>6 DEF Entries
<1>8. /\ e.played + 1 = (e.won + w) + (e.drawn + d) + (e.lost + l)
      /\ e.played + 1 = Len(Append(e.form, o))
      /\ e.points + (3 * w + d) = 3 * (e.won + w) + (e.drawn + d)
  <2>1. e.played = e.won + e.drawn + e.lost /\ e.points = 3 * e.won + e.drawn
    BY DEF AddsUp
  <2>2. e.played = Len(e.form)
    BY DEF AddsUp
  <2>3. e.points + (3 * w + d) = 3 * (e.won + w) + (e.drawn + d)
    BY <2>1, <1>2, <1>4
  <2>4. e.played + 1 = (e.won + w) + (e.drawn + d) + (e.lost + l)
    BY <2>1, <1>2, <1>4
  <2> QED
    BY <2>2, <2>3, <2>4, <1>3
<1>9. AddsUp(Credit(e, m, side))
  <2> HIDE DEF o
  <2> QED
    BY <1>5, <1>8 DEF AddsUp
<1> QED
  BY <1>7, <1>9

Sound(map) ==
  DOMAIN map \subseteq Teams /\ \A t \in DOMAIN map : map[t] \in Entries /\ AddsUp(map[t])

LEMMA NewEntryAddsUp == NewEntry \in Entries /\ AddsUp(NewEntry)
  BY DEF NewEntry, Entries, AddsUp

LEMMA TeamOfType ==
  ASSUME NEW f \in Fixtures, NEW side \in Side
  PROVE  TeamOf(f, side) \in Teams
  BY FixturesHaveTeams DEF TeamOf

LEMMA CreditedSound ==
  ASSUME NEW map, Sound(map), NEW f \in Fixtures, NEW side \in Side,
         matches \in [Fixtures -> Row]
  PROVE  Sound(Credited(map, f, side))
<1> DEFINE t == TeamOf(f, side)
           e == IF t \in DOMAIN map THEN map[t] ELSE NewEntry
<1>1. e \in Entries /\ AddsUp(e)
  BY NewEntryAddsUp DEF Sound
<1>2. Credit(e, matches[f], side) \in Entries /\ AddsUp(Credit(e, matches[f], side))
  BY <1>1, CreditAddsUp
<1> QED
  BY <1>2, TeamOfType DEF Credited, Sound

-----------------------------------------------------------------------------
IInv ==
  /\ matches \in [Fixtures -> Row]
  /\ todo \subseteq Confirmed
  /\ Sound(team_map)
  /\ \A i \in DOMAIN table : table[i].team \in Teams /\ table[i].rank = i

\* What one turn of the loop does to the map, whichever of its two branches runs.
Turn(f) ==
  /\ f \in todo /\ todo' = todo \ {f} /\ UNCHANGED <<matches, table>>
  /\ \E side \in Side :
       team_map' = Credited(Credited(team_map, f, side), f, Other(side))

LEMMA LoopTurns ==
  ASSUME IInv, NEW f \in Fixtures, ApplyMatch(f) \/ ApplyWalkover(f)
  PROVE  Turn(f)
<1>1. WalkoverWinner(matches[f]) \in Side
  BY WinnerIsSide
<1>2. "home" \in Side /\ Other("home") = "away"
  BY DEF Side, Other
<1>3. CASE ApplyMatch(f)
  BY <1>2, <1>3 DEF ApplyMatch, Turn
<1>4. CASE ApplyWalkover(f)
  BY <1>1, <1>4 DEF ApplyWalkover, Turn
<1> QED
  BY <1>3, <1>4

LEMMA DifferencesSound ==
  ASSUME Sound(team_map)
  PROVE  Sound(WithDifferences)
<1>1. ASSUME NEW t \in DOMAIN team_map
      PROVE  WithDifferences[t] \in Entries /\ AddsUp(WithDifferences[t])
  <2>1. team_map[t] \in Entries /\ AddsUp(team_map[t])
    BY DEF Sound
  <2>2. team_map[t].gf - team_map[t].ga \in Int
    BY <2>1 DEF Entries
  <2>3. WithDifferences[t] = [team_map[t] EXCEPT !.gd = team_map[t].gf - team_map[t].ga]
    BY DEF WithDifferences
  <2>4. WithDifferences[t] \in Entries
    BY <2>1, <2>2, <2>3 DEF Entries
  <2>5. AddsUp(WithDifferences[t])
    BY <2>1, <2>3 DEF AddsUp, Entries
  <2> QED
    BY <2>4, <2>5
<1> QED
  BY <1>1 DEF Sound, WithDifferences

LEMMA InitIInv == Init => IInv
  BY ResultsAreRows DEF Init, IInv, Sound

LEMMA StepIInv == IInv /\ [Next]_vars => IInv'
<1> SUFFICES ASSUME IInv, [Next]_vars PROVE IInv'
  OBVIOUS
<1>1. ASSUME NEW f \in Fixtures, ApplyMatch(f) \/ ApplyWalkover(f) PROVE IInv'
  <2>1. Turn(f)
    BY <1>1, LoopTurns
  <2>2. PICK side \in Side : team_map' = Credited(Credited(team_map, f, side), f, Other(side))
    BY <2>1 DEF Turn
  <2>3. Other(side) \in Side
    BY DEF Other, Side
  <2>4. Sound(team_map')
    BY <2>2, <2>3, CreditedSound DEF IInv
  <2> QED
    BY <2>1, <2>4 DEF IInv, Turn, Confirmed, Sound
<1>2. CASE Rank
  <2>1. Sound(team_map')
    BY <1>2, DifferencesSound DEF Rank, IInv
  <2>2. PICK s \in SetToSeqs(DOMAIN team_map) :
          table' = [i \in DOMAIN s |-> [team |-> s[i], rank |-> i]]
    BY <1>2 DEF Rank
  <2>3. \A i \in DOMAIN s : s[i] \in DOMAIN team_map
    BY DEF SetToSeqs
  <2>4. \A i \in DOMAIN table' : table'[i].team \in Teams /\ table'[i].rank = i
    BY <2>2, <2>3 DEF IInv, Sound
  <2> QED
    BY <1>2, <2>1, <2>4 DEF Rank, IInv, Confirmed, Sound
<1>3. CASE UNCHANGED vars
  BY <1>3 DEF vars, IInv, Confirmed, Sound
<1> QED
  BY <1>1, <1>2, <1>3 DEF Next

\* Every variable keeps its type through the loop and the ranking.
THEOREM TypeCorrect == Spec => []TypeOK
<1>1. IInv => TypeOK
  BY DEF IInv, TypeOK, Sound, Confirmed
<1> QED
  BY <1>1, InitIInv, StepIInv, PTL DEF Spec

-----------------------------------------------------------------------------
\* The count of the matches met.  A pair <<f, side>> enters the set Met once, and
\* exactly one of its team's three counters follows it.
LEMMA AppearsMore ==
  ASSUME NEW met, NEW f, NEW side, NEW t,
         TeamOf(f, side) = t
  PROVE  Appearances(met \cup {<<f, side>>}, t) = Appearances(met, t) \cup {<<f, side>>}
<1> DEFINE a == <<f, side>>
<1>1. a[1] = f /\ a[2] = side
  OBVIOUS
<1> HIDE DEF a
<1>2. Appearances(met \cup {a}, t) = Appearances(met, t) \cup {a}
  BY <1>1 DEF Appearances
<1> QED
  BY <1>2 DEF a

LEMMA AppearsSame ==
  ASSUME NEW met, NEW f, NEW side, NEW t,
         TeamOf(f, side) # t
  PROVE  Appearances(met \cup {<<f, side>>}, t) = Appearances(met, t)
<1> DEFINE a == <<f, side>>
<1>1. a[1] = f /\ a[2] = side
  OBVIOUS
<1> HIDE DEF a
<1>2. Appearances(met \cup {a}, t) = Appearances(met, t)
  BY <1>1 DEF Appearances
<1> QED
  BY <1>2 DEF a

LEMMA HasMore ==
  ASSUME NEW met, NEW f, NEW side
  PROVE  Having(met \cup {<<f, side>>}, TeamOf(f, side), Outcome(matches[f], side)) =
           Having(met, TeamOf(f, side), Outcome(matches[f], side)) \cup {<<f, side>>}
<1> DEFINE a == <<f, side>>
           t == TeamOf(f, side)
           o == Outcome(matches[f], side)
<1>1. a[1] = f /\ a[2] = side
  OBVIOUS
<1> HIDE DEF a
<1>2. Having(met \cup {a}, t, o) = Having(met, t, o) \cup {a}
  BY <1>1 DEF Having, Appearances
<1> QED
  BY <1>2 DEF a

LEMMA HasSame ==
  ASSUME NEW met, NEW f, NEW side, NEW t, NEW o,
         ~(TeamOf(f, side) = t /\ Outcome(matches[f], side) = o)
  PROVE  Having(met \cup {<<f, side>>}, t, o) = Having(met, t, o)
<1> DEFINE a == <<f, side>>
<1>1. a[1] = f /\ a[2] = side
  OBVIOUS
<1> HIDE DEF a
<1>2. Having(met \cup {a}, t, o) = Having(met, t, o)
  BY <1>1 DEF Having, Appearances
<1> QED
  BY <1>2 DEF a

LEMMA MeetCount ==
  ASSUME NEW met \in SUBSET (Fixtures \X Side), IsFiniteSet(met),
         NEW f \in Fixtures, NEW side \in Side, <<f, side>> \notin met, NEW t, NEW o
  PROVE  /\ Cardinality(Having(met, t, o)) \in Nat
         /\ Cardinality(Having(met \cup {<<f, side>>}, t, o)) =
              Cardinality(Having(met, t, o)) +
              One(TeamOf(f, side) = t /\ Outcome(matches[f], side) = o)
<1>1. Having(met, t, o) \subseteq met
  BY DEF Having, Appearances
<1>2. IsFiniteSet(Having(met, t, o)) /\ <<f, side>> \notin Having(met, t, o)
  BY <1>1, FS_Subset
<1>3. Cardinality(Having(met, t, o)) \in Nat
  BY <1>2, FS_CardinalityType
<1>4. Cardinality(Having(met, t, o) \cup {<<f, side>>}) = Cardinality(Having(met, t, o)) + 1
  BY <1>2, FS_AddElement
<1>5. CASE TeamOf(f, side) = t /\ Outcome(matches[f], side) = o
  <2>1. Having(met \cup {<<f, side>>}, t, o) = Having(met, t, o) \cup {<<f, side>>}
    <3>1. Having(met \cup {<<f, side>>}, TeamOf(f, side), Outcome(matches[f], side)) =
            Having(met, TeamOf(f, side), Outcome(matches[f], side)) \cup {<<f, side>>}
      BY HasMore
    <3> QED
      BY <1>5, <3>1
  <2>2. One(TeamOf(f, side) = t /\ Outcome(matches[f], side) = o) = 1
    BY <1>5 DEF One
  <2> QED
    BY <2>1, <2>2, <1>3, <1>4
<1>6. CASE ~(TeamOf(f, side) = t /\ Outcome(matches[f], side) = o)
  <2>1. Having(met \cup {<<f, side>>}, t, o) = Having(met, t, o)
    BY <1>6, HasSame
  <2>2. One(TeamOf(f, side) = t /\ Outcome(matches[f], side) = o) = 0
    BY <1>6 DEF One
  <2> QED
    BY <2>1, <2>2, <1>3
<1> QED
  BY <1>5, <1>6, <1>3

LEMMA CreditCounts ==
  ASSUME NEW e, NEW m, NEW side
  PROVE  /\ Credit(e, m, side).won = e.won + One(Outcome(m, side) = "W")
         /\ Credit(e, m, side).drawn = e.drawn + One(Outcome(m, side) = "D")
         /\ Credit(e, m, side).lost = e.lost + One(Outcome(m, side) = "L")
  BY DEF Credit

LEMMA CreditedCounts ==
  ASSUME NEW met \in SUBSET (Fixtures \X Side), IsFiniteSet(met),
         NEW f \in Fixtures, NEW side \in Side, <<f, side>> \notin met,
         NEW map, Counts(map, met)
  PROVE  Counts(Credited(map, f, side), met \cup {<<f, side>>})
<1> DEFINE t == TeamOf(f, side)
           o == Outcome(matches[f], side)
           new == met \cup {<<f, side>>}
           e == IF t \in DOMAIN map THEN map[t] ELSE NewEntry
           after == Credited(map, f, side)
<1>1. t \in Teams
  BY TeamOfType
<1>2. DOMAIN map = {u \in Teams : Appearances(met, u) # {}}
  BY DEF Counts
<1>3. DOMAIN after = DOMAIN map \cup {t}
  BY DEF Credited
<1>4. DOMAIN after = {u \in Teams : Appearances(new, u) # {}}
  <2>1. ASSUME NEW u \in Teams
        PROVE  Appearances(new, u) # {} <=> (Appearances(met, u) # {} \/ u = t)
    <3>1. CASE u = t
      <4>1. Appearances(new, u) = Appearances(met, u) \cup {<<f, side>>}
        BY <3>1, AppearsMore
      <4> QED
        BY <3>1, <4>1
    <3>2. CASE u # t
      <4>1. Appearances(new, u) = Appearances(met, u)
        BY <3>2, AppearsSame
      <4> QED
        BY <3>2, <4>1
    <3> QED
      BY <3>1, <3>2
  <2> QED
    BY <1>1, <1>2, <1>3, <2>1
\* What the entry held before counts the same appearances, a fresh one included.
<1>5. /\ e.won = Cardinality(Having(met, t, "W"))
      /\ e.drawn = Cardinality(Having(met, t, "D"))
      /\ e.lost = Cardinality(Having(met, t, "L"))
  <2>1. CASE t \in DOMAIN map
    BY <2>1 DEF Counts
  <2>2. CASE t \notin DOMAIN map
    <3>1. Appearances(met, t) = {}
      BY <1>1, <1>2, <2>2
    <3>2. \A x : Having(met, t, x) = {}
      BY <3>1 DEF Having
    <3>3. Cardinality({}) = 0
      BY FS_EmptySet
    <3>4. e.won = 0 /\ e.drawn = 0 /\ e.lost = 0
      BY <2>2 DEF NewEntry
    <3> QED
      BY <3>2, <3>3, <3>4
  <2> QED
    BY <2>1, <2>2
<1>6. ASSUME NEW u \in DOMAIN after
      PROVE  /\ after[u].won = Cardinality(Having(new, u, "W"))
             /\ after[u].drawn = Cardinality(Having(new, u, "D"))
             /\ after[u].lost = Cardinality(Having(new, u, "L"))
  <2>1. CASE u = t
    <3>1. after[u] = Credit(e, matches[f], side)
      BY <2>1, <1>3 DEF Credited
    <3>2. /\ after[u].won = e.won + One(o = "W") /\ after[u].drawn = e.drawn + One(o = "D")
          /\ after[u].lost = e.lost + One(o = "L")
      BY <3>1, CreditCounts
    <3>3. \A x : Cardinality(Having(new, t, x)) = Cardinality(Having(met, t, x)) + One(o = x)
      <4>1. ASSUME NEW x
            PROVE  Cardinality(Having(new, t, x)) = Cardinality(Having(met, t, x)) + One(o = x)
        <5>1. (t = t /\ o = x) <=> o = x
          OBVIOUS
        <5> QED
          BY MeetCount DEF One
      <4> QED
        BY <4>1
    <3> QED
      BY <2>1, <3>2, <3>3, <1>5
  <2>2. CASE u # t
    <3>1. u \in DOMAIN map /\ after[u] = map[u]
      BY <2>2, <1>3 DEF Credited
    <3>2. \A x : Having(new, u, x) = Having(met, u, x)
      BY <2>2, HasSame
    <3> QED
      BY <3>1, <3>2 DEF Counts
  <2> QED
    BY <2>1, <2>2
<1> HIDE DEF after, new
<1>7. Counts(after, new)
  BY <1>4, <1>6 DEF Counts
<1> QED
  BY <1>7 DEF after, new

Counted == Counts(team_map, Met)
CInv == IInv /\ Counted

\* Both sides of every match: what can be met at most.
LEMMA SidesFinite == IsFiniteSet(Fixtures \X Side)
<1>1. IsFiniteSet(Side)
  BY FS_EmptySet, FS_AddElement, Side = {} \cup {"home"} \cup {"away"} DEF Side
<1> QED
  BY <1>1, FixturesHaveTeams, FS_Product

LEMMA MetFinite == IInv => Met \in SUBSET (Fixtures \X Side) /\ IsFiniteSet(Met)
<1>1. Met \in SUBSET (Fixtures \X Side)
  BY DEF Met, Confirmed
<1> QED
  BY <1>1, SidesFinite, FS_Subset

LEMMA InitCounts == Init => Counted
<1> SUFFICES ASSUME Init PROVE Counted
  OBVIOUS
<1>1. Met = {}
  BY DEF Init, Met
<1>2. DOMAIN team_map = {}
  BY DEF Init
<1>3. \A t : Appearances({}, t) = {}
  BY DEF Appearances
<1> QED
  BY <1>1, <1>2, <1>3 DEF Counted, Counts

LEMMA StepCounts == CInv /\ [Next]_vars => Counted'
<1> SUFFICES ASSUME CInv, [Next]_vars PROVE Counted'
  OBVIOUS
\* While the rows stay what they are, so does the meaning of a count.
<1>1. ASSUME matches' = matches, NEW map, NEW met, Counts(map, met) PROVE Counts(map, met)'
  BY <1>1 DEF Counts, Having, Appearances
<1>2. ASSUME NEW f \in Fixtures, ApplyMatch(f) \/ ApplyWalkover(f) PROVE Counted'
  <2>1. Turn(f)
    BY <1>2, LoopTurns DEF CInv
  <2>2. PICK side \in Side : team_map' = Credited(Credited(team_map, f, side), f, Other(side))
    BY <2>1 DEF Turn
  <2> DEFINE a == <<f, side>>
             b == <<f, Other(side)>>
  <2>3. Other(side) \in Side /\ side # Other(side) /\ Side = {side, Other(side)}
    BY DEF Other, Side
  <2>4. a \notin Met /\ b \notin Met \cup {a}
    BY <2>1, <2>3 DEF Turn, Met
  <2>5. Met \in SUBSET (Fixtures \X Side) /\ IsFiniteSet(Met)
    BY MetFinite DEF CInv
  <2>6. Met \cup {a} \in SUBSET (Fixtures \X Side) /\ IsFiniteSet(Met \cup {a})
    BY <2>5, FS_AddElement
  <2>7. Counts(Credited(team_map, f, side), Met \cup {a})
    BY <2>4, <2>5, CreditedCounts DEF CInv, Counted
  <2>8. Counts(team_map', (Met \cup {a}) \cup {b})
    BY <2>2, <2>3, <2>4, <2>6, <2>7, CreditedCounts
  <2>9. Met' = (Met \cup {a}) \cup {b}
    <3>1. f \in Confirmed \ (todo \ {f})
      BY <2>1 DEF Turn, CInv, IInv
    <3>2. Confirmed' \ todo' = (Confirmed \ todo) \cup {f}
      BY <2>1, <3>1 DEF Turn, Confirmed
    <3> QED
      BY <2>3, <3>2 DEF Met
  <2> QED
    BY <1>1, <2>1, <2>8, <2>9 DEF Counted, Turn
<1>3. CASE Rank
  <2>1. UNCHANGED <<matches, todo>> /\ team_map' = WithDifferences
    BY <1>3 DEF Rank
  <2>2. DOMAIN WithDifferences = DOMAIN team_map
    BY DEF WithDifferences
  <2>3. ASSUME NEW t \in DOMAIN team_map
        PROVE  /\ WithDifferences[t].won = team_map[t].won
               /\ WithDifferences[t].drawn = team_map[t].drawn
               /\ WithDifferences[t].lost = team_map[t].lost
    <3>1. team_map[t] \in Entries
      BY DEF CInv, IInv, Sound
    <3>2. WithDifferences[t] = [team_map[t] EXCEPT !.gd = team_map[t].gf - team_map[t].ga]
      BY DEF WithDifferences
    <3> QED
      BY <3>1, <3>2 DEF Entries
  <2>4. Counts(WithDifferences, Met)
    BY <2>2, <2>3 DEF CInv, Counted, Counts
  <2>5. Met' = Met
    BY <2>1 DEF Met, Confirmed
  <2> QED
    BY <1>1, <2>1, <2>4, <2>5 DEF Counted
<1>4. CASE UNCHANGED vars
  <2>1. UNCHANGED <<matches, todo, team_map>>
    BY <1>4 DEF vars
  <2>2. Met' = Met
    BY <2>1 DEF Met, Confirmed
  <2> QED
    BY <1>1, <2>1, <2>2 DEF CInv, Counted
<1> QED
  BY <1>2, <1>3, <1>4 DEF Next

\* Whatever order the query delivers, the entries count every appearance met
\* once, under its outcome, and every entry adds up, for played matches and walkovers.
THEOREM TableCountsResults == Spec => []CountsMatchResults
<1>1. Init => CInv
  BY InitIInv, InitCounts DEF CInv
<1>2. CInv /\ [Next]_vars => CInv'
  BY StepIInv, StepCounts DEF CInv
<1>3. CInv => CountsMatchResults
  BY DEF CInv, Counted, IInv, Sound, CountsMatchResults
<1> QED
  BY <1>1, <1>2, <1>3, PTL DEF Spec

-----------------------------------------------------------------------------
\* Sums.  SumFunction adds the values of a function in an order that CHOOSE picks.
\* The induction theorems of the library take a predicate; these proofs take a
\* least counterexample, which is a set.
LEMMA LeastNumber ==
  ASSUME NEW T, T \subseteq Nat, T # {}
  PROVE  \E n \in T : \A m \in T : n <= m
<1>1. PICK n \in T : \A m \in T : ~(<<m, n>> \in OpToRel(<, Nat))
  BY NatLessThanWellFounded, WFMin
<1>2. \A m \in T : ~(m < n)
  BY <1>1 DEF OpToRel
<1> QED
  BY <1>2

\* A set of subsets that has each one of which it has all that lack one element.
LEMMA SubsetInduction ==
  ASSUME NEW S, IsFiniteSet(S), NEW U,
         \A s \in SUBSET S : (\A x \in s : s \ {x} \in U) => s \in U
  PROVE  \A s \in SUBSET S : s \in U
<1> SUFFICES ASSUME NEW s0 \in SUBSET S, s0 \notin U PROVE FALSE
  OBVIOUS
<1> DEFINE T == {Cardinality(s) : s \in {t \in SUBSET S : t \notin U}}
<1>1. \A s \in SUBSET S : IsFiniteSet(s) /\ Cardinality(s) \in Nat
  BY FS_Subset, FS_CardinalityType
<1>2. T \subseteq Nat /\ T # {}
  BY <1>1
<1>3. PICK n \in T : \A m \in T : n <= m
  BY <1>2, LeastNumber
<1>4. PICK s \in SUBSET S : s \notin U /\ Cardinality(s) = n
  BY <1>3
<1>5. PICK x \in s : s \ {x} \notin U
  BY <1>4
<1>6. Cardinality(s \ {x}) = Cardinality(s) - 1
  BY <1>1, <1>5, FS_RemoveElement
<1>7. Cardinality(s \ {x}) \in T
  BY <1>5
<1>8. n \in Nat /\ n <= Cardinality(s \ {x})
  <2> HIDE DEF T
  <2> QED
    BY <1>2, <1>3, <1>7
<1> QED
  BY <1>4, <1>6, <1>8

Pick(s) == CHOOSE x \in s : TRUE
Total1(g, f, s) == IF s = {} THEN 0 ELSE f[Pick(s)] + g[s \ {Pick(s)}]
Sums(g, f) == g = [s \in SUBSET DOMAIN f |-> Total1(g, f, s)]

LEMMA SumDef ==
  ASSUME NEW f
  PROVE SumFunction(f) = (CHOOSE g : Sums(g, f))[DOMAIN f]
  BY DEF SumFunction, SumFunctionOnSet, FoldFunctionOnSet, MapThenFoldSet, Sums, Total1, Pick

LEMMA SumsExist ==
  ASSUME NEW f, IsFiniteSet(DOMAIN f)
  PROVE  \E g : Sums(g, f)
<1> DEFINE S == DOMAIN f
           Upto(g, n) == \A s \in SUBSET S : Cardinality(s) <= n => g[s] = Total1(g, f, s)
           T == {n \in Nat : ~ \E g : Upto(g, n)}
<1>1. \A s \in SUBSET S : IsFiniteSet(s) /\ Cardinality(s) \in Nat
  BY FS_Subset, FS_CardinalityType
<1>2. ASSUME NEW n \in Nat, NEW h, \A s \in SUBSET S : Cardinality(s) < n => h[s] = Total1(h, f, s)
      PROVE  \E g : Upto(g, n)
  <2> DEFINE g == [s \in SUBSET S |-> Total1(h, f, s)]
  <2>1. \A s \in SUBSET S : Cardinality(s) < n => g[s] = h[s]
    BY <1>2
  <2>2. ASSUME NEW s \in SUBSET S, Cardinality(s) <= n, s # {}
        PROVE  g[s \ {Pick(s)}] = h[s \ {Pick(s)}]
    <3>1. Pick(s) \in s
      BY <2>2 DEF Pick
    <3>2. Cardinality(s \ {Pick(s)}) = Cardinality(s) - 1
      BY <3>1, <1>1, FS_RemoveElement
    <3>3. Cardinality(s \ {Pick(s)}) < n
      BY <3>2, <1>1, <2>2
    <3> QED
      BY <2>1, <3>3
  <2>3. Upto(g, n)
    BY <2>2 DEF Total1
  <2> QED
    BY <2>3
<1>3. T = {}
  <2> SUFFICES ASSUME T # {} PROVE FALSE
    OBVIOUS
  <2>1. PICK n \in T : \A m \in T : n <= m
    BY LeastNumber
  <2>2. \E h : \A s \in SUBSET S : Cardinality(s) < n => h[s] = Total1(h, f, s)
    <3>1. CASE n = 0
      BY <1>1, <3>1
    <3>2. CASE n # 0
      <4>1. n - 1 \in Nat /\ n - 1 \notin T
        BY <2>1, <3>2
      <4>2. PICK h : Upto(h, n - 1)
        BY <4>1
      <4>3. \A s \in SUBSET S : Cardinality(s) < n => Cardinality(s) <= n - 1
        BY <1>1
      <4> QED
        BY <4>2, <4>3
    <3> QED
      BY <3>1, <3>2
  <2> QED
    BY <1>2, <2>1, <2>2
<1>4. Cardinality(S) \in Nat
  BY <1>1
<1>5. PICK h : Upto(h, Cardinality(S))
  BY <1>3, <1>4
<1>6. \A s \in SUBSET S : Cardinality(s) <= Cardinality(S)
  BY FS_Subset
<1> DEFINE g == [s \in SUBSET S |-> Total1(h, f, s)]
<1>7. \A s \in SUBSET S : g[s] = h[s]
  BY <1>5, <1>6
<1>8. \A s \in SUBSET S : Total1(g, f, s) = Total1(h, f, s)
  BY <1>7 DEF Total1, Pick
<1>9. Sums(g, f)
  BY <1>8 DEF Sums
<1> QED
  BY <1>9

\* Two functions that sum alike where both are sums.
LEMMA SumsAgree ==
  ASSUME NEW f, NEW g, Sums(g, f), NEW e, NEW h, Sums(h, e),
         IsFiniteSet(DOMAIN f), DOMAIN f \subseteq DOMAIN e, \A x \in DOMAIN f : e[x] = f[x]
  PROVE  \A s \in SUBSET DOMAIN f : g[s] = h[s]
<1> DEFINE S == DOMAIN f
           U == {s \in SUBSET S : g[s] = h[s]}
<1>1. ASSUME NEW s \in SUBSET S, \A x \in s : s \ {x} \in U PROVE s \in U
  <2>1. g[s] = Total1(g, f, s) /\ h[s] = Total1(h, e, s)
    BY DEF Sums
  <2>2. CASE s = {}
    BY <2>1, <2>2 DEF Total1
  <2>3. CASE s # {}
    <3>1. Pick(s) \in s
      BY <2>3 DEF Pick
    <3>2. g[s \ {Pick(s)}] = h[s \ {Pick(s)}] /\ e[Pick(s)] = f[Pick(s)]
      BY <1>1, <3>1
    <3> QED
      BY <2>1, <2>3, <3>2 DEF Total1
  <2> QED
    BY <2>2, <2>3
<1>2. \A s \in SUBSET S : s \in U
  <2> HIDE DEF U
  <2> QED
    BY <1>1, SubsetInduction
<1> QED
  BY <1>2

LEMMA SumsType ==
  ASSUME NEW f, NEW g, Sums(g, f), IsFiniteSet(DOMAIN f), \A x \in DOMAIN f : f[x] \in Int
  PROVE  \A s \in SUBSET DOMAIN f : g[s] \in Int
<1> DEFINE U == {s \in SUBSET DOMAIN f : g[s] \in Int}
<1>1. ASSUME NEW s \in SUBSET DOMAIN f, \A x \in s : s \ {x} \in U PROVE s \in U
  <2>1. s # {} => Pick(s) \in s
    BY DEF Pick
  <2>2. s # {} => f[Pick(s)] \in Int /\ g[s \ {Pick(s)}] \in Int
    BY <1>1, <2>1
  <2>3. g[s] = Total1(g, f, s)
    BY DEF Sums
  <2>4. g[s] \in Int
    BY <2>2, <2>3 DEF Total1
  <2> QED
    BY <2>4
<1>2. \A s \in SUBSET DOMAIN f : s \in U
  <2> HIDE DEF U
  <2> QED
    BY <1>1, SubsetInduction
<1> QED
  BY <1>2

\* The order of the additions does not matter.
LEMMA SumsAdd ==
  ASSUME NEW f, NEW g, Sums(g, f), IsFiniteSet(DOMAIN f), \A x \in DOMAIN f : f[x] \in Int
  PROVE  \A s \in SUBSET DOMAIN f : \A x \in s : g[s] = f[x] + g[s \ {x}]
<1> DEFINE S == DOMAIN f
           U == {s \in SUBSET S : \A x \in s : g[s] = f[x] + g[s \ {x}]}
<1>1. ASSUME NEW s \in SUBSET S, \A x \in s : s \ {x} \in U, NEW x \in s
      PROVE  g[s] = f[x] + g[s \ {x}]
  <2> DEFINE c == Pick(s)
  <2>1. c \in s /\ g[s] = f[c] + g[s \ {c}]
    BY DEF Pick, Sums, Total1
  <2> HIDE DEF c
  <2>2. CASE x = c
    BY <2>1, <2>2
  <2>3. CASE x # c
    <3>1. x \in s \ {c} /\ c \in s \ {x} /\ (s \ {c}) \ {x} = (s \ {x}) \ {c}
      BY <2>1, <2>3
    <3>2. g[s \ {c}] = f[x] + g[(s \ {x}) \ {c}]
      BY <1>1, <2>1, <3>1
    <3>3. g[s \ {x}] = f[c] + g[(s \ {x}) \ {c}]
      BY <1>1, <3>1
    <3>4. PICK a \in Int : a = g[(s \ {x}) \ {c}]
      BY SumsType
    <3>5. f[x] \in Int /\ f[c] \in Int
      BY <2>1
    <3>6. f[c] + (f[x] + a) = f[x] + (f[c] + a)
      BY <3>4, <3>5
    <3> QED
      BY <2>1, <3>2, <3>3, <3>4, <3>6
  <2> QED
    BY <2>2, <2>3
<1>2. \A s \in SUBSET S : s \in U
  <2>1. ASSUME NEW s \in SUBSET S, \A x \in s : s \ {x} \in U PROVE s \in U
    BY <1>1, <2>1
  <2> HIDE DEF U
  <2> QED
    BY <2>1, SubsetInduction
<1> QED
  BY <1>2

\* What the proofs below use of a sum.
LEMMA SumIs ==
  ASSUME NEW f, IsFiniteSet(DOMAIN f)
  PROVE  \E g : Sums(g, f) /\ SumFunction(f) = g[DOMAIN f]
  BY SumsExist, SumDef

LEMMA SumEmpty == ASSUME NEW f, DOMAIN f = {} PROVE SumFunction(f) = 0
<1>1. IsFiniteSet(DOMAIN f)
  BY FS_EmptySet
<1>2. PICK g : Sums(g, f) /\ SumFunction(f) = g[DOMAIN f]
  BY <1>1, SumIs
<1> QED
  BY <1>2 DEF Sums, Total1

LEMMA SumType ==
  ASSUME NEW f, IsFiniteSet(DOMAIN f), \A x \in DOMAIN f : f[x] \in Int
  PROVE  SumFunction(f) \in Int
<1>1. PICK g : Sums(g, f) /\ SumFunction(f) = g[DOMAIN f]
  BY SumIs
<1> QED
  BY <1>1, SumsType

\* A sum is one of its values and the sum of the others.
LEMMA SumSplit ==
  ASSUME NEW f, IsFiniteSet(DOMAIN f), \A x \in DOMAIN f : f[x] \in Int, NEW x \in DOMAIN f
  PROVE  SumFunction(f) = f[x] + SumFunction([y \in DOMAIN f \ {x} |-> f[y]])
<1> DEFINE e == [y \in DOMAIN f \ {x} |-> f[y]]
<1>1. IsFiniteSet(DOMAIN e) /\ DOMAIN e = DOMAIN f \ {x}
  BY FS_Subset
<1>2. PICK g : Sums(g, f) /\ SumFunction(f) = g[DOMAIN f]
  BY SumIs
<1>3. PICK h : Sums(h, e) /\ SumFunction(e) = h[DOMAIN e]
  BY <1>1, SumIs
<1>4. h[DOMAIN e] = g[DOMAIN e]
  <2>1. \A y \in DOMAIN e : f[y] = e[y]
    OBVIOUS
  <2> HIDE DEF e
  <2> QED
    BY <1>1, <1>2, <1>3, <2>1, SumsAgree
<1>5. g[DOMAIN f] = f[x] + g[DOMAIN f \ {x}]
  BY <1>2, SumsAdd
<1> QED
  BY <1>1, <1>2, <1>3, <1>4, <1>5

\* One value of a function set to v, or v added to its values.
LEMMA SumChange ==
  ASSUME NEW D, IsFiniteSet(D), NEW f \in [D -> Int], NEW x, NEW v \in Int
  PROVE  SumFunction([y \in D \cup {x} |-> IF y = x THEN v ELSE f[y]])
           = (SumFunction(f) - (IF x \in D THEN f[x] ELSE 0)) + v
<1> DEFINE h == [y \in D \cup {x} |-> IF y = x THEN v ELSE f[y]]
           e == [y \in D \ {x} |-> f[y]]
<1>1. /\ DOMAIN h = D \cup {x} /\ IsFiniteSet(D \cup {x}) /\ h[x] = v
      /\ \A y \in D \cup {x} : h[y] \in Int
  BY FS_AddElement
<1>2. [y \in (D \cup {x}) \ {x} |-> h[y]] = e
  OBVIOUS
<1>3. SumFunction(h) = v + SumFunction(e)
  <2> HIDE DEF h
  <2> QED
    BY <1>1, <1>2, SumSplit
<1>4. SumFunction(e) \in Int
  BY FS_Subset, SumType
<1>5. CASE x \in D
  <2>1. SumFunction(f) = f[x] + SumFunction(e)
    BY <1>5, SumSplit
  <2> QED
    BY <1>3, <1>4, <1>5, <2>1
<1>6. CASE x \notin D
  <2>1. D = DOMAIN f \ {x} /\ IsFiniteSet(D)
    BY <1>6
  <2>2. SumFunction(e) = SumFunction([y \in D |-> f[y]])
    BY <2>1
  <2>3. SumFunction([y \in D |-> f[y]]) = SumFunction(f)
    OBVIOUS
  <2> QED
    BY <1>3, <1>4, <1>6, <2>2, <2>3
<1> QED
  BY <1>5, <1>6

-----------------------------------------------------------------------------
\* The ledger.  A turn of the loop credits two entries, and what the first wins or
\* scores the second loses or concedes.
ColumnTotal(map, c) == SumFunction([t \in DOMAIN map |-> map[t][c]])

\* An entry that gains d in a column, or enters with it, adds d to the total.
LEMMA TotalGains ==
  ASSUME NEW map, IsFiniteSet(DOMAIN map), NEW c, \A u \in DOMAIN map : map[u][c] \in Int,
         NEW t, NEW e, NEW d \in Int,
         e[c] = (IF t \in DOMAIN map THEN map[t][c] ELSE 0) + d
  PROVE  ColumnTotal([u \in DOMAIN map \cup {t} |-> IF u = t THEN e ELSE map[u]], c)
           = ColumnTotal(map, c) + d
<1> DEFINE D == DOMAIN map
           f == [u \in D |-> map[u][c]]
           N == [u \in D \cup {t} |-> IF u = t THEN e ELSE map[u]]
           h == [u \in D \cup {t} |-> IF u = t THEN e[c] ELSE f[u]]
<1>1. f \in [D -> Int] /\ e[c] \in Int
  OBVIOUS
<1>2. [u \in DOMAIN N |-> N[u][c]] = h
  OBVIOUS
<1>3. SumFunction(h) = (SumFunction(f) - (IF t \in D THEN f[t] ELSE 0)) + e[c]
  <2> HIDE DEF f
  <2> QED
    BY <1>1, SumChange
<1>4. SumFunction(f) \in Int
  <2> HIDE DEF f
  <2> QED
    BY <1>1, SumType
<1>5. e[c] = (IF t \in D THEN f[t] ELSE 0) + d /\ (IF t \in D THEN f[t] ELSE 0) \in Int
  OBVIOUS
<1>6. SumFunction(h) = SumFunction(f) + d
  <2> HIDE DEF f, h
  <2> QED
    BY <1>3, <1>4, <1>5
<1> QED
  BY <1>2, <1>6 DEF ColumnTotal

LEMMA CreditedTotals ==
  ASSUME NEW map, Sound(map), IsFiniteSet(DOMAIN map), NEW f \in Fixtures, NEW side \in Side,
         matches \in [Fixtures -> Row]
  PROVE  LET m == matches[f]  new == Credited(map, f, side) IN
         /\ IsFiniteSet(DOMAIN new)
         /\ ColumnTotal(new, "won") = ColumnTotal(map, "won") + One(Outcome(m, side) = "W")
         /\ ColumnTotal(new, "lost") = ColumnTotal(map, "lost") + One(Outcome(m, side) = "L")
         /\ ColumnTotal(new, "gf") = ColumnTotal(map, "gf") + ScoreOf(m, side)
         /\ ColumnTotal(new, "ga") = ColumnTotal(map, "ga") + ScoreOf(m, Other(side))
<1> DEFINE m == matches[f]
           t == TeamOf(f, side)
           old == IF t \in DOMAIN map THEN map[t] ELSE NewEntry
           e == Credit(old, m, side)
<1>1. Credited(map, f, side) = [u \in DOMAIN map \cup {t} |-> IF u = t THEN e ELSE map[u]]
  BY DEF Credited
<1>2. \A u \in DOMAIN map : /\ map[u]["won"] \in Int /\ map[u]["lost"] \in Int
                            /\ map[u]["gf"] \in Int /\ map[u]["ga"] \in Int
  BY DEF Sound, Entries
<1>3. \A c \in {"won", "lost", "gf", "ga"} :
        old[c] = IF t \in DOMAIN map THEN map[t][c] ELSE 0
  BY DEF NewEntry
<1>4. /\ e["won"] = old["won"] + One(Outcome(m, side) = "W")
      /\ e["lost"] = old["lost"] + One(Outcome(m, side) = "L")
      /\ e["gf"] = old["gf"] + ScoreOf(m, side)
      /\ e["ga"] = old["ga"] + ScoreOf(m, Other(side))
  BY DEF Credit
<1>5. /\ One(Outcome(m, side) = "W") \in Int /\ One(Outcome(m, side) = "L") \in Int
      /\ ScoreOf(m, side) \in Int /\ ScoreOf(m, Other(side)) \in Int
  BY OtherIsSide, ScoreType DEF One
<1> HIDE DEF old, e, m
<1>6. ASSUME NEW c \in {"won", "lost", "gf", "ga"}, NEW d \in Int, e[c] = old[c] + d
      PROVE  ColumnTotal(Credited(map, f, side), c) = ColumnTotal(map, c) + d
  <2>1. e[c] = (IF t \in DOMAIN map THEN map[t][c] ELSE 0) + d
    BY <1>3, <1>6
  <2>2. \A u \in DOMAIN map : map[u][c] \in Int
    BY <1>2
  <2>3. ColumnTotal([u \in DOMAIN map \cup {t} |-> IF u = t THEN e ELSE map[u]], c)
          = ColumnTotal(map, c) + d
    BY <2>1, <2>2, TotalGains
  <2> QED
    BY <1>1, <2>3
<1>7. IsFiniteSet(DOMAIN Credited(map, f, side))
  BY <1>1, FS_AddElement
<1> QED
  BY <1>4, <1>5, <1>6, <1>7 DEF m

LInv ==
  /\ IsFiniteSet(DOMAIN team_map)
  /\ ColumnTotal(team_map, "won") = ColumnTotal(team_map, "lost")
  /\ ColumnTotal(team_map, "gf") = ColumnTotal(team_map, "ga")

LEMMA InitLInv == Init => LInv
<1> SUFFICES ASSUME Init PROVE LInv
  OBVIOUS
<1>1. DOMAIN team_map = {}
  BY DEF Init
<1>2. \A c : ColumnTotal(team_map, c) = 0
  BY <1>1, SumEmpty DEF ColumnTotal
<1> QED
  BY <1>1, <1>2, FS_EmptySet DEF LInv

\* Of the two sides of a match one wins what the other loses.
LEMMA ZeroSum ==
  ASSUME NEW m \in Row, NEW side \in Side
  PROVE  /\ Other(Other(side)) = side
         /\ Outcome(m, side) = "W" <=> Outcome(m, Other(side)) = "L"
         /\ Outcome(m, side) = "L" <=> Outcome(m, Other(side)) = "W"
<1>1. m.home \in Int /\ m.away \in Int
  BY DEF Row
<1>2. (side = "home" /\ Other(side) = "away") \/ (side = "away" /\ Other(side) = "home")
  BY DEF Side, Other
<1>3. WalkoverWinner(m) = "home" \/ WalkoverWinner(m) = "away"
  BY WinnerIsSide DEF Side
<1> QED
  BY <1>1, <1>2, <1>3 DEF Other, Outcome, ScoreOf

LEMMA StepLInv == IInv /\ LInv /\ [Next]_vars => LInv'
<1> SUFFICES ASSUME IInv, LInv, [Next]_vars PROVE LInv'
  OBVIOUS
<1>1. ASSUME NEW f \in Fixtures, ApplyMatch(f) \/ ApplyWalkover(f) PROVE LInv'
  <2>1. Turn(f)
    BY <1>1, LoopTurns
  <2>2. PICK side \in Side : team_map' = Credited(Credited(team_map, f, side), f, Other(side))
    BY <2>1 DEF Turn
  <2> DEFINE m == matches[f]
             mid == Credited(team_map, f, side)
             map == Credited(mid, f, Other(side))
  <2>3. /\ m \in Row /\ matches \in [Fixtures -> Row]
        /\ Other(side) \in Side /\ Other(Other(side)) = side
    BY OtherIsSide, ZeroSum DEF IInv
  <2>4. Sound(mid)
    BY <2>3, CreditedSound DEF IInv
  <2>5. /\ IsFiniteSet(DOMAIN mid)
        /\ ColumnTotal(mid, "won") = ColumnTotal(team_map, "won") + One(Outcome(m, side) = "W")
        /\ ColumnTotal(mid, "lost") = ColumnTotal(team_map, "lost") + One(Outcome(m, side) = "L")
        /\ ColumnTotal(mid, "gf") = ColumnTotal(team_map, "gf") + ScoreOf(m, side)
        /\ ColumnTotal(mid, "ga") = ColumnTotal(team_map, "ga") + ScoreOf(m, Other(side))
    BY <2>3, CreditedTotals DEF IInv, LInv
  <2> HIDE DEF mid
  <2>6. /\ IsFiniteSet(DOMAIN map)
        /\ ColumnTotal(map, "won") = ColumnTotal(mid, "won") + One(Outcome(m, Other(side)) = "W")
        /\ ColumnTotal(map, "lost") = ColumnTotal(mid, "lost") + One(Outcome(m, Other(side)) = "L")
        /\ ColumnTotal(map, "gf") = ColumnTotal(mid, "gf") + ScoreOf(m, Other(side))
        /\ ColumnTotal(map, "ga") = ColumnTotal(mid, "ga") + ScoreOf(m, Other(Other(side)))
    BY <2>3, <2>4, <2>5, CreditedTotals
  <2> HIDE DEF map, m
  <2>7. /\ ScoreOf(m, side) \in Int /\ ScoreOf(m, Other(side)) \in Int
        /\ One(Outcome(m, side) = "W") \in Int /\ One(Outcome(m, side) = "L") \in Int
    BY <2>3, ScoreType DEF One
  <2>8. \A c \in {"won", "lost", "gf", "ga"} : ColumnTotal(team_map, c) \in Int
    <3> TAKE c \in {"won", "lost", "gf", "ga"}
    <3> DEFINE g == [t \in DOMAIN team_map |-> team_map[t][c]]
    <3>1. DOMAIN g = DOMAIN team_map /\ \A t \in DOMAIN g : g[t] \in Int
      BY DEF IInv, Sound, Entries
    <3> HIDE DEF g
    <3>2. SumFunction(g) \in Int
      BY <3>1, SumType DEF LInv
    <3> QED
      BY <3>2 DEF ColumnTotal, g
  <2>9. /\ One(Outcome(m, Other(side)) = "L") = One(Outcome(m, side) = "W")
        /\ One(Outcome(m, Other(side)) = "W") = One(Outcome(m, side) = "L")
    BY <2>3, ZeroSum DEF m
  <2>10. ColumnTotal(map, "won") = ColumnTotal(map, "lost")
    BY <2>5, <2>6, <2>7, <2>8, <2>9 DEF LInv
  <2>11. ColumnTotal(map, "gf") = ColumnTotal(map, "ga")
    BY <2>3, <2>5, <2>6, <2>7, <2>8 DEF LInv
  <2> QED
    BY <2>2, <2>6, <2>10, <2>11 DEF LInv, map, mid
<1>2. CASE Rank
  <2>1. team_map' = WithDifferences /\ DOMAIN WithDifferences = DOMAIN team_map
    BY <1>2 DEF Rank, WithDifferences
  <2>2. ASSUME NEW c \in {"won", "lost", "gf", "ga"}
        PROVE  ColumnTotal(WithDifferences, c) = ColumnTotal(team_map, c)
    <3>1. \A t \in DOMAIN team_map : WithDifferences[t][c] = team_map[t][c]
      BY DEF WithDifferences, IInv, Sound, Entries
    <3>2. [t \in DOMAIN WithDifferences |-> WithDifferences[t][c]]
            = [t \in DOMAIN team_map |-> team_map[t][c]]
      BY <2>1, <3>1
    <3> QED
      BY <3>2 DEF ColumnTotal
  <2> QED
    BY <2>1, <2>2 DEF LInv
<1>3. CASE UNCHANGED vars
  BY <1>3 DEF vars, LInv
<1> QED
  BY <1>1, <1>2, <1>3 DEF Next

\* Wins pay for losses and goals for goals at every turn of compute_for_stage, in
\* whatever order the query delivers the matches.
THEOREM LedgerAlwaysBalances == Spec => []LedgerBalances
<1>1. LInv => LedgerBalances
  BY DEF LInv, LedgerBalances, Total, ColumnTotal
<1> QED
  BY <1>1, InitIInv, StepIInv, InitLInv, StepLInv, PTL DEF Spec

-----------------------------------------------------------------------------
\* The goals of an entry are those of the appearances met, in any order: the
\* ranking, which compares entries, compares results.
GoalsFor(met, t) ==
  SumFunction([a \in Appearances(met, t) |-> ScoreOf(matches[a[1]], a[2])])
GoalsAgainst(met, t) ==
  SumFunction([a \in Appearances(met, t) |-> ScoreOf(matches[a[1]], Other(a[2]))])

CountsGoals(map, met) ==
  \A t \in DOMAIN map : /\ map[t].gf = GoalsFor(met, t)
                        /\ map[t].ga = GoalsAgainst(met, t)

\* One more appearance adds its value to a sum over appearances.
LEMMA SumMeets ==
  ASSUME NEW A, IsFiniteSet(A), NEW a, a \notin A, NEW V, V \in [A \cup {a} -> Int]
  PROVE  SumFunction(V) = SumFunction([x \in A |-> V[x]]) + V[a]
<1>1. IsFiniteSet(A \cup {a}) /\ (A \cup {a}) \ {a} = A
  BY FS_AddElement
<1>2. SumFunction(V) = V[a] + SumFunction([x \in A |-> V[x]])
  <2>1. DOMAIN V = A \cup {a}
    OBVIOUS
  <2>2. SumFunction(V) = V[a] + SumFunction([x \in DOMAIN V \ {a} |-> V[x]])
    BY <1>1, <2>1, SumSplit
  <2> QED
    BY <1>1, <2>1, <2>2
<1>3. SumFunction([x \in A |-> V[x]]) \in Int
  BY SumType
<1> QED
  BY <1>2, <1>3

LEMMA MeetGoals ==
  ASSUME NEW met \in SUBSET (Fixtures \X Side), IsFiniteSet(met), matches \in [Fixtures -> Row],
         NEW f \in Fixtures, NEW side \in Side, <<f, side>> \notin met
  PROVE  LET t == TeamOf(f, side)  new == met \cup {<<f, side>>} IN
         /\ GoalsFor(new, t) = GoalsFor(met, t) + ScoreOf(matches[f], side)
         /\ GoalsAgainst(new, t) = GoalsAgainst(met, t) + ScoreOf(matches[f], Other(side))
<1> DEFINE t == TeamOf(f, side)
           a == <<f, side>>
           A == Appearances(met, t)
           V == [x \in A \cup {a} |-> ScoreOf(matches[x[1]], x[2])]
           W == [x \in A \cup {a} |-> ScoreOf(matches[x[1]], Other(x[2]))]
<1>1. A \subseteq met
  BY DEF Appearances
<1>2. IsFiniteSet(A) /\ a \notin A
  BY <1>1, FS_Subset
<1>3. \A x \in A \cup {a} : x[1] \in Fixtures /\ x[2] \in Side
  <2>1. a[1] \in Fixtures /\ a[2] \in Side
    OBVIOUS
  <2>2. \A x \in Fixtures \X Side : x[1] \in Fixtures /\ x[2] \in Side
    OBVIOUS
  <2> QED
    BY <1>1, <2>1, <2>2
<1>4. V \in [A \cup {a} -> Int] /\ W \in [A \cup {a} -> Int]
  BY <1>3, ScoreType, OtherIsSide
<1>5. Appearances(met \cup {a}, t) = A \cup {a}
  BY AppearsMore
<1>6. V[a] = ScoreOf(matches[f], side) /\ W[a] = ScoreOf(matches[f], Other(side))
  OBVIOUS
<1>7. /\ [x \in A |-> V[x]] = [x \in A |-> ScoreOf(matches[x[1]], x[2])]
      /\ [x \in A |-> W[x]] = [x \in A |-> ScoreOf(matches[x[1]], Other(x[2]))]
  OBVIOUS
<1>8. GoalsFor(met, t) = SumFunction([x \in A |-> V[x]])
  BY <1>7 DEF GoalsFor
<1>9. GoalsAgainst(met, t) = SumFunction([x \in A |-> W[x]])
  BY <1>7 DEF GoalsAgainst
<1>10. GoalsFor(met \cup {a}, t) = SumFunction(V)
  BY <1>5 DEF GoalsFor
<1>11. GoalsAgainst(met \cup {a}, t) = SumFunction(W)
  BY <1>5 DEF GoalsAgainst
<1> HIDE DEF V, W
<1>12. SumFunction(V) = SumFunction([x \in A |-> V[x]]) + V[a]
  BY <1>2, <1>4, SumMeets
<1>13. SumFunction(W) = SumFunction([x \in A |-> W[x]]) + W[a]
  BY <1>2, <1>4, SumMeets
<1> QED
  BY <1>6, <1>8, <1>9, <1>10, <1>11, <1>12, <1>13

LEMMA CreditedGoals ==
  ASSUME NEW met \in SUBSET (Fixtures \X Side), IsFiniteSet(met), matches \in [Fixtures -> Row],
         NEW f \in Fixtures, NEW side \in Side, <<f, side>> \notin met,
         NEW map, Counts(map, met), CountsGoals(map, met)
  PROVE  CountsGoals(Credited(map, f, side), met \cup {<<f, side>>})
<1> DEFINE t == TeamOf(f, side)
           new == met \cup {<<f, side>>}
           e == IF t \in DOMAIN map THEN map[t] ELSE NewEntry
           after == Credited(map, f, side)
<1>1. DOMAIN after = DOMAIN map \cup {t}
  BY DEF Credited
<1>2. e.gf = GoalsFor(met, t) /\ e.ga = GoalsAgainst(met, t)
  <2>1. CASE t \in DOMAIN map
    BY <2>1 DEF CountsGoals
  <2>2. CASE t \notin DOMAIN map
    <3>1. Appearances(met, t) = {}
      BY <2>2, TeamOfType DEF Counts
    <3>2. GoalsFor(met, t) = 0 /\ GoalsAgainst(met, t) = 0
      BY <3>1, SumEmpty DEF GoalsFor, GoalsAgainst
    <3> QED
      BY <2>2, <3>2 DEF NewEntry
  <2> QED
    BY <2>1, <2>2
<1>3. after[t].gf = GoalsFor(new, t) /\ after[t].ga = GoalsAgainst(new, t)
  <2>1. after[t] = Credit(e, matches[f], side)
    BY DEF Credited
  <2>2. /\ after[t].gf = e.gf + ScoreOf(matches[f], side)
        /\ after[t].ga = e.ga + ScoreOf(matches[f], Other(side))
    BY <2>1 DEF Credit
  <2> QED
    BY <1>2, <2>2, MeetGoals
<1>4. ASSUME NEW u \in DOMAIN map, u # t
      PROVE  after[u].gf = GoalsFor(new, u) /\ after[u].ga = GoalsAgainst(new, u)
  <2>1. after[u] = map[u]
    BY <1>4 DEF Credited
  <2>2. Appearances(new, u) = Appearances(met, u)
    BY <1>4, AppearsSame
  <2>3. GoalsFor(new, u) = GoalsFor(met, u) /\ GoalsAgainst(new, u) = GoalsAgainst(met, u)
    BY <2>2 DEF GoalsFor, GoalsAgainst
  <2> QED
    BY <2>1, <2>3 DEF CountsGoals
<1> HIDE DEF after, new
<1>5. CountsGoals(after, new)
  BY <1>1, <1>3, <1>4 DEF CountsGoals
<1> QED
  BY <1>5 DEF after, new

LEMMA StepGoals == CInv /\ CountsGoals(team_map, Met) /\ [Next]_vars => CountsGoals(team_map, Met)'
<1> SUFFICES ASSUME CInv, CountsGoals(team_map, Met), [Next]_vars
             PROVE  CountsGoals(team_map, Met)'
  OBVIOUS
<1>1. ASSUME matches' = matches, NEW map, NEW met, CountsGoals(map, met)
      PROVE  CountsGoals(map, met)'
  BY <1>1 DEF CountsGoals, GoalsFor, GoalsAgainst, Appearances
<1>2. ASSUME NEW f \in Fixtures, ApplyMatch(f) \/ ApplyWalkover(f)
      PROVE  CountsGoals(team_map, Met)'
  <2>1. Turn(f)
    BY <1>2, LoopTurns DEF CInv
  <2>2. PICK side \in Side : team_map' = Credited(Credited(team_map, f, side), f, Other(side))
    BY <2>1 DEF Turn
  <2> DEFINE a == <<f, side>>
             b == <<f, Other(side)>>
  <2>3. Other(side) \in Side /\ side # Other(side) /\ Side = {side, Other(side)}
    BY DEF Other, Side
  <2>4. a \notin Met /\ b \notin Met \cup {a}
    BY <2>1, <2>3 DEF Turn, Met
  <2>5. Met \in SUBSET (Fixtures \X Side) /\ IsFiniteSet(Met)
    BY MetFinite DEF CInv
  <2>6. Met \cup {a} \in SUBSET (Fixtures \X Side) /\ IsFiniteSet(Met \cup {a})
    <3>1. a \in Fixtures \X Side
      OBVIOUS
    <3> QED
      BY <2>5, <3>1, FS_AddElement
  <2>7. matches \in [Fixtures -> Row]
    BY DEF CInv, IInv
  <2>8. Counts(Credited(team_map, f, side), Met \cup {a})
    BY <2>4, <2>5, CreditedCounts DEF CInv, Counted
  <2>9. CountsGoals(Credited(team_map, f, side), Met \cup {a})
    BY <2>4, <2>5, <2>7, CreditedGoals DEF CInv, Counted
  <2>10. CountsGoals(team_map', (Met \cup {a}) \cup {b})
    BY <2>2, <2>3, <2>4, <2>6, <2>7, <2>8, <2>9, CreditedGoals
  <2>11. Met' = (Met \cup {a}) \cup {b}
    <3>1. f \in Confirmed \ (todo \ {f})
      BY <2>1 DEF Turn, CInv, IInv
    <3>2. Confirmed' \ todo' = (Confirmed \ todo) \cup {f}
      BY <2>1, <3>1 DEF Turn, Confirmed
    <3> QED
      BY <2>3, <3>2 DEF Met
  <2>12. PICK map : map = team_map'
    OBVIOUS
  <2>13. PICK met : met = Met'
    OBVIOUS
  <2>14. CountsGoals(map, met)'
    BY <1>1, <2>1, <2>10, <2>11, <2>12, <2>13 DEF Turn
  <2> QED
    BY <2>12, <2>13, <2>14 DEF CountsGoals
<1>3. CASE Rank
  <2>1. UNCHANGED <<matches, todo>> /\ team_map' = WithDifferences
    BY <1>3 DEF Rank
  <2>2. ASSUME NEW t \in DOMAIN team_map
        PROVE  /\ WithDifferences[t].gf = team_map[t].gf
               /\ WithDifferences[t].ga = team_map[t].ga
    BY DEF WithDifferences, CInv, IInv, Sound, Entries
  <2>3. DOMAIN WithDifferences = DOMAIN team_map
    BY DEF WithDifferences
  <2>4. Met' = Met
    BY <2>1 DEF Met, Confirmed
  <2>5. \A t : GoalsFor(Met, t)' = GoalsFor(Met, t) /\ GoalsAgainst(Met, t)' = GoalsAgainst(Met, t)
    BY <2>1, <2>4 DEF GoalsFor, GoalsAgainst, Appearances
  <2> QED
    BY <2>1, <2>2, <2>3, <2>5 DEF CountsGoals
<1>4. CASE UNCHANGED vars
  <2>1. UNCHANGED <<matches, team_map>> /\ Met' = Met
    BY <1>4 DEF vars, Met, Confirmed
  <2>2. \A t : GoalsFor(Met, t)' = GoalsFor(Met, t) /\ GoalsAgainst(Met, t)' = GoalsAgainst(Met, t)
    BY <2>1 DEF GoalsFor, GoalsAgainst, Appearances
  <2> QED
    BY <2>1, <2>2 DEF CountsGoals
<1> QED
  BY <1>2, <1>3, <1>4 DEF Next

\* A table holds teams with entries, in the order of the sort key, once the loop is
\* over and the differences are taken.
Ordered ==
  table # <<>> =>
    /\ todo = {}
    /\ \A t \in DOMAIN team_map : team_map[t].gd = team_map[t].gf - team_map[t].ga
    /\ \A i \in DOMAIN table : table[i].team \in DOMAIN team_map
    /\ \A i, j \in DOMAIN table :
         i < j => Above(team_map, table[i].team, table[j].team)

LEMMA StepOrdered == IInv /\ Ordered /\ [Next]_vars => Ordered'
<1> SUFFICES ASSUME IInv, Ordered, [Next]_vars PROVE Ordered'
  OBVIOUS
<1>1. ASSUME NEW f \in Fixtures, ApplyMatch(f) \/ ApplyWalkover(f) PROVE Ordered'
  <2>1. Turn(f)
    BY <1>1, LoopTurns
  <2>2. table = <<>> /\ table' = table
    BY <2>1 DEF Turn, Ordered
  <2> QED
    BY <2>2 DEF Ordered
<1>2. CASE Rank
  <2>1. PICK s \in SetToSeqs(DOMAIN team_map) :
          /\ Sorted(WithDifferences, s)
          /\ table' = [i \in DOMAIN s |-> [team |-> s[i], rank |-> i]]
    BY <1>2 DEF Rank
  <2>2. todo' = {} /\ team_map' = WithDifferences
    BY <1>2 DEF Rank
  <2>3. DOMAIN WithDifferences = DOMAIN team_map /\ \A i \in DOMAIN s : s[i] \in DOMAIN team_map
    BY DEF SetToSeqs, WithDifferences
  <2>4. \A t \in DOMAIN team_map :
          WithDifferences[t].gd = WithDifferences[t].gf - WithDifferences[t].ga
    BY DEF WithDifferences, IInv, Sound, Entries
  <2>5. DOMAIN table' = DOMAIN s /\ \A i \in DOMAIN s : table'[i].team = s[i]
    BY <2>1
  <2>6. \A i, j \in DOMAIN s : i < j => Above(WithDifferences, s[i], s[j])
    BY <2>1 DEF Sorted
  <2>7. \A t, u : Above(team_map, t, u)' = Above(WithDifferences, t, u)
    BY <2>2 DEF Above
  <2>8. \A i, j \in DOMAIN table' : i < j => Above(WithDifferences, table'[i].team, table'[j].team)
    BY <2>5, <2>6
  <2> QED
    BY <2>2, <2>3, <2>4, <2>5, <2>8 DEF Ordered, Above
<1>3. CASE UNCHANGED vars
  BY <1>3 DEF vars, Ordered, Above
<1> QED
  BY <1>1, <1>2, <1>3 DEF Next

LEMMA RankedByEntries ==
  ASSUME CInv, CountsGoals(team_map, Met), Ordered
  PROVE  RankedByResults
<1> SUFFICES ASSUME NEW i \in DOMAIN table, NEW j \in DOMAIN table, i < j
             PROVE  LET t == table[i].team  u == table[j].team
                        gd(x) == Scored(x) - Conceded(x) IN
                    /\ Earned(t) >= Earned(u)
                    /\ Earned(t) = Earned(u) => gd(t) >= gd(u)
                    /\ Earned(t) = Earned(u) /\ gd(t) = gd(u) => Scored(t) >= Scored(u)
  BY DEF RankedByResults
<1> DEFINE t == table[i].team
           u == table[j].team
<1>1. t \in DOMAIN team_map /\ u \in DOMAIN team_map /\ Above(team_map, t, u)
  BY DEF Ordered
<1>2. ASSUME NEW x \in DOMAIN team_map
      PROVE  /\ team_map[x].points = Earned(x) /\ team_map[x].gf = Scored(x)
             /\ team_map[x].gd = Scored(x) - Conceded(x)
             /\ team_map[x].points \in Nat /\ team_map[x].gf \in Int /\ team_map[x].gd \in Int
  <2>1. team_map[x] \in Entries /\ AddsUp(team_map[x])
    BY DEF CInv, IInv, Sound
  <2>2. team_map[x].points = Earned(x)
    BY <2>1 DEF AddsUp, Earned, CInv, Counted, Counts
  <2>3. team_map[x].gf = Scored(x) /\ team_map[x].ga = Conceded(x)
    BY DEF CountsGoals, GoalsFor, GoalsAgainst, Scored, Conceded
  <2>4. team_map[x].gd = team_map[x].gf - team_map[x].ga
    BY DEF Ordered
  <2> QED
    BY <2>1, <2>2, <2>3, <2>4 DEF Entries
<1> HIDE DEF t, u
<1>3. /\ team_map[t].points >= team_map[u].points
      /\ team_map[t].points = team_map[u].points => team_map[t].gd >= team_map[u].gd
      /\ team_map[t].points = team_map[u].points /\ team_map[t].gd = team_map[u].gd
           => team_map[t].gf >= team_map[u].gf
  BY <1>1, <1>2 DEF Above
<1>4. /\ Earned(t) >= Earned(u)
      /\ Earned(t) = Earned(u) => Scored(t) - Conceded(t) >= Scored(u) - Conceded(u)
      /\ Earned(t) = Earned(u) /\ Scored(t) - Conceded(t) = Scored(u) - Conceded(u)
           => Scored(t) >= Scored(u)
  BY <1>1, <1>2, <1>3
<1> QED
  BY <1>4 DEF t, u

\* The answer of compute_for_stage is ranked by the results of the matches, whatever
\* the order in which the query delivers them: the entries it sorts hold those
\* results, each once.
THEOREM TablesRankResults == Spec => []RankedByResults
<1>1. Init => CInv /\ CountsGoals(team_map, Met) /\ Ordered
  <2>1. Init => CountsGoals(team_map, Met) /\ Ordered
    BY DEF Init, CountsGoals, Ordered
  <2> QED
    BY <2>1, InitIInv, InitCounts DEF CInv
<1>2. CInv /\ CountsGoals(team_map, Met) /\ Ordered /\ [Next]_vars
        => CInv' /\ CountsGoals(team_map, Met)' /\ Ordered'
  BY StepIInv, StepCounts, StepGoals, StepOrdered DEF CInv
<1>3. CInv /\ CountsGoals(team_map, Met) /\ Ordered => RankedByResults
  BY RankedByEntries
<1> QED
  BY <1>1, <1>2, <1>3, PTL DEF Spec

-----------------------------------------------------------------------------
\* The head to head.  The wins over one opponent are a set of matches, the lists of
\* the query number some or all of them, and the sets of the opponents part the
\* matches won.
LEMMA SumPart ==
  ASSUME NEW U, IsFiniteSet(U), NEW f \in [U -> Int], NEW s \in SUBSET U
  PROVE  /\ SumFunction([y \in s |-> f[y]]) \in Int
         /\ \A x \in s : SumFunction([y \in s |-> f[y]])
                           = f[x] + SumFunction([y \in s \ {x} |-> f[y]])
<1> DEFINE h == [y \in s |-> f[y]]
<1>1. IsFiniteSet(DOMAIN h) /\ DOMAIN h = s /\ \A y \in s : h[y] = f[y] /\ h[y] \in Int
  BY FS_Subset
<1>2. SumFunction(h) \in Int
  <2> HIDE DEF h
  <2> QED
    BY <1>1, SumType
<1>3. ASSUME NEW x \in s
      PROVE  SumFunction(h) = f[x] + SumFunction([y \in s \ {x} |-> f[y]])
  <2>1. [y \in DOMAIN h \ {x} |-> h[y]] = [y \in s \ {x} |-> f[y]]
    OBVIOUS
  <2> HIDE DEF h
  <2> QED
    BY <1>1, <2>1, SumSplit
<1> QED
  BY <1>2, <1>3

LEMMA SumMonotone ==
  ASSUME NEW U, IsFiniteSet(U), NEW f \in [U -> Int], NEW h \in [U -> Int],
         \A u \in U : f[u] <= h[u]
  PROVE  SumFunction(f) <= SumFunction(h)
<1> DEFINE F(s) == SumFunction([y \in s |-> f[y]])
           H(s) == SumFunction([y \in s |-> h[y]])
           W == {s \in SUBSET U : F(s) <= H(s)}
<1>1. ASSUME NEW s \in SUBSET U, \A x \in s : s \ {x} \in W PROVE s \in W
  <2>1. CASE s = {}
    <3>1. F(s) = 0 /\ H(s) = 0
      BY <2>1, SumEmpty
    <3> QED
      BY <3>1
  <2>2. CASE s # {}
    <3>1. PICK x \in s : TRUE
      BY <2>2
    <3>2. F(s) = f[x] + F(s \ {x}) /\ H(s) = h[x] + H(s \ {x})
      <4>1. F(s) = f[x] + F(s \ {x})
        BY <3>1, SumPart
      <4>2. H(s) = h[x] + H(s \ {x})
        BY <3>1, SumPart
      <4> QED
        BY <4>1, <4>2
    <3>3. F(s \ {x}) \in Int /\ H(s \ {x}) \in Int
      BY SumPart
    <3>4. F(s \ {x}) <= H(s \ {x})
      BY <1>1, <3>1
    <3>5. f[x] \in Int /\ h[x] \in Int /\ f[x] <= h[x]
      BY <3>1
    <3> HIDE DEF F, H
    <3>6. F(s) <= H(s)
      BY <3>2, <3>3, <3>4, <3>5
    <3> QED
      BY <3>6
  <2> QED
    BY <2>1, <2>2
<1>2. U \in W
  <2> HIDE DEF W
  <2> QED
    BY <1>1, SubsetInduction
<1>3. [y \in U |-> f[y]] = f /\ [y \in U |-> h[y]] = h
  OBVIOUS
<1> QED
  BY <1>2, <1>3

\* What takes a summand per element is the sum.
TakesEach(C, f, U) ==
  C[{}] = 0 /\ \A s \in SUBSET U : \A x \in s : C[s] = f[x] + C[s \ {x}]

LEMMA SumByParts ==
  ASSUME NEW U, IsFiniteSet(U), NEW f \in [U -> Int], NEW C, TakesEach(C, f, U)
  PROVE  C[U] = SumFunction(f)
<1> DEFINE F(s) == SumFunction([y \in s |-> f[y]])
           W == {s \in SUBSET U : F(s) = C[s]}
<1>1. ASSUME NEW s \in SUBSET U, \A x \in s : s \ {x} \in W PROVE s \in W
  <2>1. CASE s = {}
    <3>1. F(s) = 0
      BY <2>1, SumEmpty
    <3> QED
      BY <2>1, <3>1 DEF TakesEach
  <2>2. CASE s # {}
    <3>1. PICK x \in s : TRUE
      BY <2>2
    <3>2. F(s) = f[x] + F(s \ {x})
      <4>1. \A z \in s : F(s) = f[z] + F(s \ {z})
        BY SumPart
      <4> HIDE DEF F
      <4> QED
        BY <3>1, <4>1
    <3>3. F(s \ {x}) = C[s \ {x}]
      BY <1>1, <3>1
    <3>4. C[s] = f[x] + C[s \ {x}]
      BY <3>1 DEF TakesEach
    <3> HIDE DEF F
    <3>5. F(s) = C[s]
      BY <3>2, <3>3, <3>4
    <3> QED
      BY <3>5
  <2> QED
    BY <2>1, <2>2
<1>2. U \in W
  <2> HIDE DEF W
  <2> QED
    BY <1>1, SubsetInduction
<1>3. [y \in U |-> f[y]] = f
  OBVIOUS
<1> QED
  BY <1>2, <1>3

\* Counting the parts counts the whole.
LEMMA SumOfParts ==
  ASSUME NEW U, IsFiniteSet(U), NEW B, IsFiniteSet(B), NEW P \in [U -> SUBSET B],
         \A u, v \in U : u # v => P[u] \cap P[v] = {}
  PROVE  SumFunction([u \in U |-> Cardinality(P[u])]) = Cardinality(UNION {P[u] : u \in U})
<1> DEFINE f == [u \in U |-> Cardinality(P[u])]
           All(s) == UNION {P[u] : u \in s}
           C == [s \in SUBSET U |-> Cardinality(All(s))]
<1>1. \A s \in SUBSET B : IsFiniteSet(s) /\ Cardinality(s) \in Nat
  BY FS_Subset, FS_CardinalityType
<1>2. f \in [U -> Int]
  BY <1>1
<1>3. ASSUME NEW s \in SUBSET U, NEW x \in s
      PROVE  Cardinality(All(s)) = f[x] + Cardinality(All(s \ {x}))
  <2> DEFINE p == P[x]
             q == All(s \ {x})
  <2>1. All(s) = p \cup q /\ p \cap q = {}
    OBVIOUS
  <2>2. p \in SUBSET B /\ q \in SUBSET B /\ f[x] = Cardinality(p)
    OBVIOUS
  <2> HIDE DEF p, q
  <2>3. Cardinality(p \cup q) = Cardinality(p) + Cardinality(q) - Cardinality(p \cap q)
    BY <1>1, <2>2, FS_Union
  <2>4. Cardinality(p \cap q) = 0
    BY <2>1, FS_EmptySet
  <2>5. Cardinality(p) \in Nat /\ Cardinality(q) \in Nat
    BY <1>1, <2>2
  <2>6. Cardinality(p \cup q) = Cardinality(p) + Cardinality(q)
    BY <2>3, <2>4, <2>5
  <2> QED
    BY <2>1, <2>2, <2>6 DEF q
<1>4. C[{}] = 0
  <2>1. All({}) = {}
    OBVIOUS
  <2> QED
    BY <2>1, FS_EmptySet
<1>5. \A s \in SUBSET U : \A x \in s : C[s] = f[x] + C[s \ {x}]
  BY <1>3
<1>6. C[U] = Cardinality(All(U))
  OBVIOUS
<1> HIDE DEF f, C
<1>7. C[U] = SumFunction(f)
  BY <1>2, <1>4, <1>5, SumByParts DEF TakesEach
<1> QED
  BY <1>6, <1>7 DEF f

\* A list without repetitions, of all or of some of the members of M.
LEMMA CountInList ==
  ASSUME NEW M, IsFiniteSet(M), NEW n \in Nat, NEW list \in [1..n -> M],
         \A i, j \in 1..n : i # j => list[i] # list[j], NEW W \in SUBSET M
  PROVE  /\ Cardinality({i \in 1..n : list[i] \in W}) \in Nat
         /\ Cardinality({i \in 1..n : list[i] \in W}) <= Cardinality(W)
         /\ n = Cardinality(M) => Cardinality({i \in 1..n : list[i] \in W}) = Cardinality(W)
<1> DEFINE I == {i \in 1..n : list[i] \in W}
           r == [i \in I |-> list[i]]
<1>1. IsFiniteSet(W) /\ IsFiniteSet(1..n) /\ Cardinality(1..n) = n
  BY FS_Subset, FS_Interval
<1>2. IsFiniteSet(I) /\ Cardinality(I) \in Nat
  BY <1>1, FS_Subset, FS_CardinalityType
<1>3. r \in Injection(I, W)
  BY DEF Injection, IsInjective
<1>4. /\ Cardinality(I) <= Cardinality(W)
      /\ r \in Surjection(I, W) => Cardinality(I) = Cardinality(W)
  <2> HIDE DEF r, I
  <2> QED
    BY <1>1, <1>3, FS_Injection
<1>5. ASSUME n = Cardinality(M) PROVE r \in Surjection(I, W)
  <2>1. list \in Injection(1..n, M)
    BY DEF Injection, IsInjective
  <2>2. list \in Surjection(1..n, M)
    BY <2>1, <1>1, <1>5, FS_Injection
  <2>3. \A w \in W : \E i \in I : r[i] = w
    BY <2>2 DEF Surjection
  <2>4. r \in [I -> W]
    OBVIOUS
  <2> QED
    BY <2>3, <2>4 DEF Surjection
<1> QED
  BY <1>2, <1>4, <1>5

\* The meetings of a and b that a has won.
Beats(a, b) == {f \in MeetingsOf(a, b) : WonByA(f, a)}

LEMMA ListIsOfMeetings ==
  ASSUME NEW a, NEW b, NEW list \in Lists(a, b)
  PROVE  \E n \in Nat : /\ Len(list) = n /\ DOMAIN list = 1..n
                        /\ list \in [1..n -> MeetingsOf(a, b)]
                        /\ \A i, j \in 1..n : i # j => list[i] # list[j]
<1> DEFINE M == MeetingsOf(a, b)
<1>1. IsFiniteSet(M)
  BY FixturesHaveTeams, FS_Subset DEF MeetingsOf
<1> HIDE DEF M
<1>2. PICK k \in Nat : k = Cardinality(M)
  BY <1>1, FS_CardinalityType
<1>3. PICK s \in SetToSeqs(M) :
        list = SubSeq(s, 1, IF Len(s) < Limit THEN Len(s) ELSE Limit)
  BY DEF Lists, M
<1>4. s \in [1..k -> M] /\ \A i, j \in 1..k : i # j => s[i] # s[j]
  BY <1>2, <1>3 DEF SetToSeqs
<1>5. s \in Seq(M) /\ Len(s) = k
  BY <1>4
<1>6. PICK n \in Nat : n <= k /\ n = IF Len(s) < Limit THEN Len(s) ELSE Limit
  BY <1>5, SomeMeetings
<1>7. list = SubSeq(s, 1, n)
  BY <1>3, <1>6
<1>8. Len(list) = n /\ DOMAIN list = 1..n /\ \A i \in 1..n : list[i] = s[i]
  BY <1>5, <1>6, <1>7
<1>9. list \in [1..n -> M]
  <2>1. list \in Seq(M)
    <3>1. \A i \in 1..n : s[i] \in M
      BY <1>4, <1>6
    <3> QED
      BY <1>5, <1>6, <1>7, SubSeqProperties
  <2> QED
    BY <2>1, <1>8, LenProperties
<1> QED
  BY <1>4, <1>6, <1>8, <1>9 DEF M

LEMMA ListWins ==
  ASSUME NEW a, NEW b, NEW list \in Lists(a, b)
  PROVE  /\ compute(a, list).team_a_wins \in Nat
         /\ compute(a, list).team_a_wins <= Cardinality(Beats(a, b))
         /\ Len(list) = Cardinality(MeetingsOf(a, b))
              => compute(a, list).team_a_wins = Cardinality(Beats(a, b))
<1> DEFINE M == MeetingsOf(a, b)
           W == Beats(a, b)
<1>1. IsFiniteSet(M) /\ W \in SUBSET M
  BY FixturesHaveTeams, FS_Subset DEF MeetingsOf, Beats
<1>2. PICK n \in Nat : /\ Len(list) = n /\ DOMAIN list = 1..n /\ list \in [1..n -> M]
                       /\ \A i, j \in 1..n : i # j => list[i] # list[j]
  BY ListIsOfMeetings
<1>3. compute(a, list).team_a_wins = Cardinality({i \in 1..n : list[i] \in W})
  <2>1. {i \in DOMAIN list : WonByA(list[i], a)} = {i \in 1..n : list[i] \in W}
    BY <1>2 DEF Beats
  <2>2. compute(a, list).team_a_wins = Cardinality({i \in DOMAIN list : WonByA(list[i], a)})
    BY DEF compute
  <2> QED
    BY <2>1, <2>2
<1> HIDE DEF M, W
<1>4. /\ Cardinality({i \in 1..n : list[i] \in W}) \in Nat
      /\ Cardinality({i \in 1..n : list[i] \in W}) <= Cardinality(W)
      /\ n = Cardinality(M) => Cardinality({i \in 1..n : list[i] \in W}) = Cardinality(W)
  BY <1>1, <1>2, CountInList
<1> QED
  BY <1>2, <1>3, <1>4 DEF M, W

\* The matches of every stage that t has won on the field.
Wins(t) == {f \in Fixtures : matches[f].status = "full_time" /\ WonByA(f, t)}

\* An appearance is won on the field when its match is; no match is won twice, and each
\* is of the stage of the table or of another.
LEMMA WonMatches ==
  ASSUME CInv, todo = {}, NEW t \in DOMAIN team_map
  PROVE  team_map[t].won - Cardinality(AwardedTo(t)) + Cardinality(WonElsewhere(t))
           = Cardinality(Wins(t))
<1> DEFINE V == Having(Met, t, "W")
           E == WonElsewhere(t)
           D == (V \ AwardedTo(t)) \cup E
           r == [x \in D |-> x[1]]
<1>1. V \subseteq Met /\ AwardedTo(t) \subseteq V
  BY DEF Having, Appearances, AwardedTo
<1>2. IsFiniteSet(V)
  BY <1>1, MetFinite, FS_Subset DEF CInv
<1>3. IsFiniteSet(E) /\ E \subseteq Fixtures \X Side
  <2>1. E \subseteq Fixtures \X Side
    BY DEF WonElsewhere, Having, Appearances
  <2> QED
    BY <2>1, SidesFinite, FS_Subset
<1>4. /\ IsFiniteSet(D)
      /\ team_map[t].won - Cardinality(AwardedTo(t)) + Cardinality(E) = Cardinality(D)
  <2> DEFINE P == V \ AwardedTo(t)
  <2>1. V \cap AwardedTo(t) = AwardedTo(t)
    BY <1>1
  <2>2. IsFiniteSet(P) /\ Cardinality(P) = Cardinality(V) - Cardinality(V \cap AwardedTo(t))
    BY <1>2, FS_Difference, FS_Subset
  <2>3. team_map[t].won = Cardinality(V)
    BY DEF CInv, Counted, Counts
  <2>4. P \cap E = {}
    <3>1. \A x \in P : StageOf[x[1]] = Stage
      BY <1>1 DEF Met, Confirmed
    <3>2. \A x \in E : StageOf[x[1]] # Stage
      BY DEF WonElsewhere
    <3> QED
      BY <3>1, <3>2
  <2> HIDE DEF P, E
  <2>5. /\ IsFiniteSet(P \cup E)
        /\ Cardinality(P \cup E) = Cardinality(P) + Cardinality(E) - Cardinality(P \cap E)
    BY <2>2, <1>3, FS_Union
  <2>6. Cardinality(P \cap E) = 0
    BY <2>4, FS_EmptySet
  <2>7. Cardinality(P) \in Nat /\ Cardinality(E) \in Nat
    BY <2>2, <1>3, FS_CardinalityType
  <2>8. Cardinality(P \cup E) = Cardinality(P) + Cardinality(E)
    BY <2>5, <2>6, <2>7
  <2>9. team_map[t].won - Cardinality(AwardedTo(t)) = Cardinality(P)
    BY <2>1, <2>2, <2>3
  <2> QED
    BY <2>5, <2>8, <2>9 DEF P
<1>5. \A f \in Fixtures : matches[f].home \in Int /\ matches[f].away \in Int
  BY DEF CInv, IInv, Row
<1>6. ASSUME NEW f \in Fixtures, NEW side \in Side
      PROVE  <<f, side>> \in D <=>
               /\ matches[f].status = "full_time" /\ TeamOf(f, side) = t
               /\ ScoreOf(matches[f], side) > ScoreOf(matches[f], Other(side))
  <2>1. <<f, side>>[1] = f /\ <<f, side>>[2] = side
    OBVIOUS
  <2>2. <<f, side>> \in Met <=>
          StageOf[f] = Stage /\ matches[f].status \in {"full_time", "walkover"}
    BY DEF Met, Confirmed
  <2>3. <<f, side>> \in V \ AwardedTo(t) <=>
          /\ <<f, side>> \in Met /\ TeamOf(f, side) = t
          /\ Outcome(matches[f], side) = "W" /\ matches[f].status # "walkover"
    BY <2>1 DEF Having, Appearances, AwardedTo
  <2>4. <<f, side>> \in E <=>
          /\ StageOf[f] # Stage /\ matches[f].status = "full_time" /\ TeamOf(f, side) = t
          /\ Outcome(matches[f], side) = "W"
    BY <2>1 DEF WonElsewhere, Having, Appearances
  <2>5. matches[f].status # "walkover" =>
          (Outcome(matches[f], side) = "W" <=>
             ScoreOf(matches[f], side) > ScoreOf(matches[f], Other(side)))
    BY DEF Outcome
  <2> QED
    BY <2>2, <2>3, <2>4, <2>5
<1>7. \A x \in D : x \in Fixtures \X Side
  BY <1>1, <1>3, MetFinite DEF CInv
<1>8. ASSUME NEW f \in Fixtures
      PROVE  /\ <<f, "home">> \in D <=> /\ matches[f].status = "full_time" /\ HomeTeam[f] = t
                                        /\ matches[f].home > matches[f].away
             /\ <<f, "away">> \in D <=> /\ matches[f].status = "full_time" /\ AwayTeam[f] = t
                                        /\ matches[f].away > matches[f].home
  BY <1>6 DEF Side, TeamOf, ScoreOf, Other
<1> HIDE DEF D
<1>9. ASSUME NEW x \in D
      PROVE  \E f \in Fixtures : x[1] = f /\ (x = <<f, "home">> \/ x = <<f, "away">>)
  <2>1. PICK f \in Fixtures, side \in Side : x = <<f, side>>
    BY <1>7
  <2> QED
    BY <2>1 DEF Side
<1>10. r \in [D -> Wins(t)]
  <2>1. ASSUME NEW x \in D PROVE x[1] \in Wins(t)
    <3>1. PICK f \in Fixtures : x[1] = f /\ (x = <<f, "home">> \/ x = <<f, "away">>)
      BY <1>9
    <3> QED
      BY <3>1, <1>5, <1>8 DEF Wins, WonByA
  <2> QED
    BY <2>1
<1>11. \A x, y \in D : x[1] = y[1] => x = y
  <2> SUFFICES ASSUME NEW x \in D, NEW y \in D, x[1] = y[1] PROVE x = y
    OBVIOUS
  <2>1. PICK f \in Fixtures : x[1] = f /\ (x = <<f, "home">> \/ x = <<f, "away">>)
    BY <1>9
  <2>2. y = <<f, "home">> \/ y = <<f, "away">>
    BY <1>9, <2>1
  <2>3. ~(<<f, "home">> \in D /\ <<f, "away">> \in D)
    BY <1>5, <1>8
  <2> QED
    BY <2>1, <2>2, <2>3
<1>12. \A f \in Wins(t) : \E x \in D : x[1] = f
  <2> SUFFICES ASSUME NEW f \in Wins(t) PROVE \E x \in D : x[1] = f
    OBVIOUS
  <2>1. <<f, "home">> \in D \/ <<f, "away">> \in D
    BY <1>5, <1>8 DEF Wins, WonByA
  <2>2. <<f, "home">>[1] = f /\ <<f, "away">>[1] = f
    OBVIOUS
  <2> QED
    BY <2>1, <2>2
<1>13. r \in Bijection(D, Wins(t))
  BY <1>10, <1>11, <1>12 DEF Bijection, Injection, Surjection, IsInjective
<1>14. Cardinality(Wins(t)) = Cardinality(D)
  <2>1. ExistsBijection(D, Wins(t))
    BY <1>13 DEF ExistsBijection
  <2> QED
    BY <2>1, <1>4, FS_Bijection
<1> QED
  BY <1>4, <1>14

\* What the agreement takes: finitely many teams, and no match of a team with itself,
\* which the code does not refuse.
OpponentsDiffer ==
  IsFiniteSet(Teams) /\ \A f \in Fixtures : HomeTeam[f] # AwayTeam[f]

LEMMA OpponentsPartWins ==
  ASSUME OpponentsDiffer, NEW t
  PROVE  /\ UNION {Beats(t, u) : u \in Teams \ {t}} = Wins(t)
         /\ \A u, v \in Teams \ {t} : u # v => Beats(t, u) \cap Beats(t, v) = {}
<1>1. ASSUME NEW f \in Wins(t) PROVE \E u \in Teams \ {t} : f \in Beats(t, u)
  <2>1. f \in Fixtures /\ (HomeTeam[f] = t \/ AwayTeam[f] = t)
    BY DEF Wins, WonByA
  <2>2. HomeTeam[f] \in Teams /\ AwayTeam[f] \in Teams /\ HomeTeam[f] # AwayTeam[f]
    BY <2>1, FixturesHaveTeams DEF OpponentsDiffer
  <2>3. PICK u \in Teams \ {t} : {HomeTeam[f], AwayTeam[f]} = {t, u}
    BY <2>1, <2>2
  <2>4. f \in Beats(t, u)
    BY <2>3 DEF Wins, Beats, MeetingsOf
  <2> QED
    BY <2>4
<1>2. \A u : Beats(t, u) \subseteq Wins(t)
  BY DEF Wins, Beats, MeetingsOf
<1>3. \A u, v \in Teams \ {t} : u # v => Beats(t, u) \cap Beats(t, v) = {}
  BY DEF Beats, MeetingsOf
<1> QED
  BY <1>1, <1>2, <1>3

LEMMA BeatenAgrees ==
  ASSUME OpponentsDiffer, NEW t, NEW lists,
         DOMAIN lists = Teams \ {t}, \A u \in Teams \ {t} : lists[u] \in Lists(t, u)
  PROVE  /\ Beaten(t, lists) <= Cardinality(Wins(t))
         /\ (\A u \in Teams \ {t} : Len(lists[u]) = Cardinality(MeetingsOf(t, u)))
              => Beaten(t, lists) = Cardinality(Wins(t))
<1> DEFINE U == Teams \ {t}
           P == [u \in U |-> Beats(t, u)]
           f == [u \in U |-> compute(t, lists[u]).team_a_wins]
           h == [u \in U |-> Cardinality(P[u])]
<1>1. IsFiniteSet(U) /\ IsFiniteSet(Fixtures)
  BY FixturesHaveTeams, FS_Subset DEF OpponentsDiffer
<1>2. P \in [U -> SUBSET Fixtures]
  BY DEF Beats, MeetingsOf
<1>3. SumFunction(h) = Cardinality(Wins(t))
  <2>1. \A u, v \in U : u # v => P[u] \cap P[v] = {}
    BY OpponentsPartWins
  <2>2. UNION {P[u] : u \in U} = Wins(t)
    BY OpponentsPartWins
  <2> HIDE DEF P, U
  <2>3. SumFunction(h) = Cardinality(UNION {P[u] : u \in U})
    BY <1>1, <1>2, <2>1, SumOfParts
  <2> QED
    BY <2>2, <2>3
<1>4. ASSUME NEW u \in U
      PROVE  /\ f[u] \in Nat /\ f[u] <= h[u] /\ h[u] \in Nat
             /\ Len(lists[u]) = Cardinality(MeetingsOf(t, u)) => f[u] = h[u]
  <2>1. IsFiniteSet(Beats(t, u)) /\ Cardinality(Beats(t, u)) \in Nat
    BY <1>1, <1>2, FS_Subset, FS_CardinalityType
  <2>2. /\ compute(t, lists[u]).team_a_wins \in Nat
        /\ compute(t, lists[u]).team_a_wins <= Cardinality(Beats(t, u))
        /\ Len(lists[u]) = Cardinality(MeetingsOf(t, u))
             => compute(t, lists[u]).team_a_wins = Cardinality(Beats(t, u))
    BY ListWins
  <2> QED
    BY <2>1, <2>2
<1>5. Beaten(t, lists) = SumFunction(f)
  BY DEF Beaten
<1>6. f \in [U -> Int] /\ h \in [U -> Int]
  BY <1>4
<1>7. (\A u \in U : Len(lists[u]) = Cardinality(MeetingsOf(t, u))) => f = h
  BY <1>4
<1>8. \A u \in U : f[u] <= h[u]
  BY <1>4
<1> HIDE DEF f, h
<1>9. SumFunction(f) <= SumFunction(h)
  BY <1>1, <1>6, <1>8, SumMonotone
<1> QED
  BY <1>3, <1>5, <1>7, <1>9

\* compute of the head to head and compute_for_stage tell the winners of the same rows
\* alike: a team's wins over its single opponents are the won matches of its table but
\* for the walkovers, and those of the tables of the other stages.
THEOREM WinsAgree ==
  ASSUME OpponentsDiffer
  PROVE  Spec => []WinsAgreeWithTables
<1>1. Init => CInv
  BY InitIInv, InitCounts DEF CInv
<1>2. CInv /\ [Next]_vars => CInv'
  BY StepIInv, StepCounts DEF CInv
<1>3. CInv => WinsAgreeWithTables
  <2> SUFFICES ASSUME CInv, todo = {}, NEW t \in DOMAIN team_map,
                      NEW lists, DOMAIN lists = Teams \ {t},
                      \A u \in Teams \ {t} : lists[u] \in Lists(t, u)
               PROVE  LET opponents == Teams \ {t}
                          won == team_map[t].won - Cardinality(AwardedTo(t))
                          won_in_all == won + Cardinality(WonElsewhere(t)) IN
                      /\ Beaten(t, lists) <= won_in_all
                      /\ (\A u \in opponents : Len(lists[u]) = Cardinality(MeetingsOf(t, u)))
                           => Beaten(t, lists) = won_in_all
    BY DEF WinsAgreeWithTables
  <2>1. team_map[t].won - Cardinality(AwardedTo(t)) + Cardinality(WonElsewhere(t))
          = Cardinality(Wins(t))
    BY WonMatches
  <2> QED
    BY <2>1, BeatenAgrees
<1> QED
  BY <1>1, <1>2, <1>3, PTL DEF Spec
=============================================================================
