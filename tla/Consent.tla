------------------------------ MODULE Consent ------------------------------
(***************************************************************************)
(* What the tool service promises about autonomy, without saying how: an   *)
(* action either has been put to a human, and then runs at most once and   *)
(* as asked, or it runs alone, and then its weight fits in what the        *)
(* incident may move by itself.  Each start of the server grants every     *)
(* incident the ceiling anew, because the budgets live in its memory.      *)
(* OpsToolService implements this specification.                           *)
(***************************************************************************)
EXTENDS Integers, Sequences

CONSTANTS Ref,        \* approval references
          Action,     \* a tool with its domain arguments
          Episode,    \* incidents
          AloneCost,  \* weights of the actions that may run alone
          Ceiling,    \* what one incident may move alone per start
          None

VARIABLES asked,   \* asked[r]: the action r was issued for, None until then
          done,    \* done[r]: the actions run under r, in order
          alone,   \* alone[e]: weight moved in e with no human, ever
          boots    \* restarts of the server so far

vars == <<asked, done, alone, boots>>

Allowance == Ceiling * (boots + 1)

Init == /\ asked = [r \in Ref |-> None]
        /\ done = [r \in Ref |-> <<>>]
        /\ alone = [e \in Episode |-> 0]
        /\ boots = 0

Ask(r, a) == /\ asked[r] = None
             /\ asked' = [asked EXCEPT ![r] = a]
             /\ UNCHANGED <<done, alone, boots>>

ActWithConsent(r) == /\ asked[r] # None
                     /\ done[r] = <<>>
                     /\ done' = [done EXCEPT ![r] = <<asked[r]>>]
                     /\ UNCHANGED <<asked, alone, boots>>

ActAlone(e, c) == /\ alone[e] + c <= Allowance
                  /\ alone' = [alone EXCEPT ![e] = @ + c]
                  /\ UNCHANGED <<asked, done, boots>>

Reboot == /\ boots' = boots + 1
          /\ UNCHANGED <<asked, done, alone>>

Next == \/ \E r \in Ref, a \in Action : Ask(r, a)
        \/ \E r \in Ref : ActWithConsent(r)
        \/ \E e \in Episode, c \in AloneCost : ActAlone(e, c)
        \/ Reboot

Spec == Init /\ [][Next]_vars
=============================================================================
