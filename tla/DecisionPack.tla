---------------------------- MODULE DecisionPack ----------------------------
(***************************************************************************)
(* The weekly decision pack (decision_pack.py).  build_pack sorts what     *)
(* waits and takes every card that still fits under four caps; what does   *)
(* not fit stays queued, as the docstring says, and is passed again with   *)
(* the next pack.                                                          *)
(*                                                                         *)
(* A card is what build_pack reads of an item; age_seconds is the time     *)
(* since it was born, so the oldest was born first.  A card of the list    *)
(* that was passed is known by its position.  The loop over the sorted     *)
(* list is a step per card: the next card is the one that sorts first of   *)
(* those that are left, and nothing else happens until none is.            *)
(***************************************************************************)
EXTENDS Integers, Sequences, FiniteSets, Functions

CONSTANTS Cards,        \* the cards that may come to wait
          CAPS          \* review_minutes, decision_cards, record_reviews,
                        \* complex_decisions

RANK == [P0 |-> 0, P1 |-> 1, P2 |-> 2, P3 |-> 3]
Caps == {"review_minutes", "decision_cards", "record_reviews",
         "complex_decisions"}

ASSUME DecisionPackAssumption ==
    /\ Cards \subseteq [id : STRING, priority : DOMAIN RANK, born : Int,
                        value : Nat, minutes : Nat, is_complex : BOOLEAN,
                        is_record : BOOLEAN]
    /\ CAPS \in [Caps -> Nat]

VARIABLES backlog,      \* the cards that wait, in the order they came
          passed,       \* the list the last build_pack was given
          unsorted,     \* the positions its loop has not come to
          included,     \* included, as positions
          excess,       \* excess, as positions
          tally         \* cards, minutes, complex_n and records

packVars == <<backlog, passed, unsorted, included, excess, tally>>

NoTally == [cards |-> 0, minutes |-> 0, complex_n |-> 0, records |-> 0]

InitPack == /\ backlog = <<>> /\ passed = <<>> /\ unsorted = {}
            /\ included = <<>> /\ excess = <<>>
            /\ tally = NoTally

-----------------------------------------------------------------------------

(* _order_key: rank, then age, then value; equal keys keep the order in    *)
(* which the items were passed.                                            *)
NewestFirst(c) == <<RANK[c.priority], -c.born, -c.value>>           \* mutant
Key(c) == <<RANK[c.priority], c.born, -c.value>>

Less(k, l) ==
    \E i \in 1..3 : k[i] < l[i] /\ \A j \in 1..(i - 1) : k[j] = l[j]

Ahead(i, j) == \/ Less(Key(passed[i]), Key(passed[j]))
               \/ Key(passed[i]) = Key(passed[j]) /\ i < j

CardArrives(c) == /\ unsorted = {}
                  /\ c \notin Range(backlog) \cup Range(passed)
                  /\ backlog' = Append(backlog, c)
                  /\ UNCHANGED <<passed, unsorted, included, excess, tally>>

BuildPack == /\ unsorted = {}
             /\ backlog # <<>>
             /\ passed' = backlog
             /\ unsorted' = DOMAIN backlog
             /\ included' = <<>>
             /\ excess' = <<>>
             /\ tally' = NoTally
             /\ backlog' = <<>>

(* Whether a card still fits on top of those included. *)
FitsWhileOpen(c) == tally.minutes < CAPS.review_minutes             \* mutant
Fits(c) ==
    /\ tally.cards + 1 <= CAPS.decision_cards
    /\ tally.minutes + c.minutes <= CAPS.review_minutes
    /\ c.is_complex => tally.complex_n + 1 <= CAPS.complex_decisions
    /\ c.is_record => tally.records + 1 <= CAPS.record_reviews

One(condition) == IF condition THEN 1 ELSE 0

Tallied(c) == [cards     |-> tally.cards + 1,
               minutes   |-> tally.minutes + c.minutes,
               complex_n |-> tally.complex_n + One(c.is_complex),
               records   |-> tally.records + One(c.is_record)]

(* One turn of the loop; what is left over after the last waits again. *)
Consider(i) ==
    /\ i \in unsorted
    /\ \A j \in unsorted \ {i} : Ahead(i, j)
    /\ unsorted' = unsorted \ {i}
    /\ \/ /\ Fits(passed[i])
          /\ included' = Append(included, i)
          /\ tally' = Tallied(passed[i])
          /\ UNCHANGED excess
       \/ /\ ~Fits(passed[i])
          /\ excess' = Append(excess, i)
          /\ UNCHANGED <<included, tally>>
    /\ backlog' = IF unsorted' = {}
                  THEN [k \in DOMAIN excess' |-> passed[excess'[k]]]
                  ELSE <<>>
    /\ UNCHANGED passed

NextPack == \/ \E c \in Cards : CardArrives(c)
            \/ BuildPack
            \/ \E i \in unsorted : Consider(i)

SpecPack == InitPack /\ [][NextPack]_packVars

-----------------------------------------------------------------------------

Minutes == [i \in DOMAIN passed |-> passed[i].minutes]

Within(S) ==
    /\ Cardinality(S) <= CAPS.decision_cards
    /\ SumFunctionOnSet(Minutes, S) <= CAPS.review_minutes
    /\ Cardinality({i \in S : passed[i].is_complex}) <= CAPS.complex_decisions
    /\ Cardinality({i \in S : passed[i].is_record}) <= CAPS.record_reviews

(* "P0/P1 first then by age/value" (decision_pack.py:4). *)
GoesFirst(i, j) ==
    LET c == passed[i]
        d == passed[j]
    IN  \/ RANK[c.priority] < RANK[d.priority]
        \/ /\ c.priority = d.priority
           /\ \/ c.born < d.born
              \/ c.born = d.born /\ c.value > d.value
              \/ c.born = d.born /\ c.value = d.value /\ i < j

(* What the greedy pass must come to, said without it: the pack keeps      *)
(* every cap; a card is left over only if the included cards that go       *)
(* before it, by rank, age and value, leave no room, so nothing behind     *)
(* ever displaces it; and no card is lost or taken twice, in the pack or   *)
(* in what waits for the next (decision_pack.py:39-70).                    *)
PackIsFair ==
    LET Prior(i) == {j \in Range(included) : GoesFirst(j, i)}
    IN  /\ Within(Range(included))
        /\ \A i \in Range(excess) : ~Within(Prior(i) \cup {i})
        /\ Len(included) + Len(excess) + Cardinality(unsorted) = Len(passed)
        /\ Range(included) \cup Range(excess) \cup unsorted = DOMAIN passed

=============================================================================
