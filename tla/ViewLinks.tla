------------------------------ MODULE ViewLinks ------------------------------
(***************************************************************************)
(* Single-use, expiring view links (decision_pack.py, ViewLinkStore).      *)
(***************************************************************************)
EXTENDS Integers, Sequences, FiniteSets

CONSTANTS Items,        \* the items links are issued for
          Salts,        \* the salts callers pass
          LinkLives,    \* how many days a link may be issued for
          MaxDays,      \* bound on the clock
          MaxLinks      \* bound on the different links

ASSUME ViewLinksAssumption ==
    LinkLives \subseteq Nat /\ MaxDays \in Nat /\ MaxLinks \in Nat

VARIABLES days,         \* the clock
          issued,       \* _issued, as the set of its tokens
          consumed,     \* _consumed
          opened        \* history: every view a link gave

linkVars == <<days, issued, consumed, opened>>

InitLinks == /\ days = 0
             /\ issued = {}
             /\ consumed = {}
             /\ opened = <<>>

(* issue: the token is a hash of the arguments, so the same link may be    *)
(* issued again, also after it was used.                                   *)
Token(item, expires_at, salt) ==
    [item |-> item, expires_at |-> expires_at, salt |-> salt]

Issue(item, life, salt) ==
    /\ issued' = issued \cup {Token(item, days + life, salt)}
    /\ Cardinality(issued') <= MaxLinks
    /\ UNCHANGED <<days, consumed, opened>>

UsableWhileItLives(token) == days < token.expires_at                \* mutant
Usable(token) == token \notin consumed /\ days < token.expires_at

Consume(token) ==
    /\ token \in issued
    /\ Usable(token)
    /\ consumed' = consumed \cup {token}
    /\ opened' = Append(opened, [token |-> token, at |-> days])
    /\ UNCHANGED <<days, issued>>

DayPasses == /\ days < MaxDays
             /\ days' = days + 1
             /\ UNCHANGED <<issued, consumed, opened>>

NextLinks ==
    \/ \E item \in Items, life \in LinkLives, salt \in Salts :
          Issue(item, life, salt)
    \/ \E token \in issued : Consume(token)
    \/ DayPasses

SpecLinks == InitLinks /\ [][NextLinks]_linkVars

-----------------------------------------------------------------------------

(* "Single-use, expiring view links. A replayed or expired link fails."    *)
(* (decision_pack.py:127): a link opens a card once, before it expires,    *)
(* also when the same link is issued again after it was used.              *)
LinkOpensOnce ==
    /\ \A i, j \in DOMAIN opened : opened[i].token = opened[j].token => i = j
    /\ \A i \in DOMAIN opened : opened[i].at < opened[i].token.expires_at

=============================================================================
