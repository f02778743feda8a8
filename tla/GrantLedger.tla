----------------------------- MODULE GrantLedger -----------------------------
(***************************************************************************)
(* What the resident agent promises about grants, without clocks, nonce    *)
(* memory, lazy purging or program counters: at every moment each grant id *)
(* has a set of approved DEKs that may be used, the set only ever shrinks  *)
(* to nothing except when its approvals are spent, an approval is never    *)
(* behind two usable grants, and key material is taken only from a usable  *)
(* grant.                                                                  *)
(***************************************************************************)
EXTENDS Integers

CONSTANTS Workers, Scopes, Boxes

VARIABLES
    live,  \* the boxes whose DEKs a request on each grant id may use
    held,  \* the boxes whose DEKs each request has taken and not dropped
    spent  \* how often each box has been spent on a grant

ledger == <<live, held, spent>>

NothingUsable == /\ live = [s \in Scopes |-> {}]
                 /\ held = [w \in Workers |-> {}]

\* Grants other than those in S stay usable or lapse for good.
MayLapseExcept(S) ==
    \A s \in Scopes \ S : live'[s] \in {live[s], {}}

\* The approver's blind boxes become usable under the grant id they name.
Approve(s, B) ==
    /\ B # {}
    /\ \A b \in B : b.scope = s
    /\ \A t \in Scopes : \A b \in B, c \in live[t] : b.nonce # c.nonce
    /\ DOMAIN live' = Scopes
    /\ live'[s] = B
    /\ MayLapseExcept({s})
    /\ spent' = [b \in Boxes |-> spent[b] + (IF b \in B THEN 1 ELSE 0)]
    /\ UNCHANGED held

\* A ttl, an approval deadline or the idle timeout passes, or a release.
Lapse ==
    /\ DOMAIN live' = Scopes
    /\ MayLapseExcept({})
    /\ UNCHANGED <<held, spent>>

Take(w, s) ==
    /\ held[w] = {}
    /\ live[s] # {}
    /\ held' = [held EXCEPT ![w] = live[s]]
    /\ UNCHANGED <<live, spent>>

Drop(w) ==
    /\ held' = [held EXCEPT ![w] = {}]
    /\ UNCHANGED <<live, spent>>

Restart == NothingUsable' /\ UNCHANGED spent

LedgerNext ==
    \/ \E s \in Scopes : \E B \in SUBSET Boxes : Approve(s, B)
    \/ Lapse
    \/ \E w \in Workers : Drop(w) \/ \E s \in Scopes : Take(w, s)
    \/ Restart

LedgerInit == NothingUsable /\ spent = [b \in Boxes |-> 0]

LedgerSpec == LedgerInit /\ [][LedgerNext]_ledger
=============================================================================
