-------------------------- MODULE MCMargotLibrary --------------------------
(***************************************************************************)
(* An application process and, apart from it, one monitor.  The two share  *)
(* nothing but the observations DataAware abstracts, so a behaviour is one *)
(* of the application or one of a monitor, never their product.            *)
(***************************************************************************)
EXTENDS DataAware, Monitors

CONSTANTS c1, c2, d

VARIABLE part

MCComparisons == <<"LESS_OR_EQUAL", "DONT_CARE">>
MCKeys   == {<<1, 1>>, <<3, 1>>}
MCFirstKey == <<1, 1>>
MCInputs == {<<0, 1>>, <<2, 1>>, <<4, 2>>}
MCModels == {<<[key |-> <<3, 2>>, confs |-> {c1}], [key |-> <<1, 1>>, confs |-> {c1, c2}]>>,
             <<[key |-> <<1, 2>>, confs |-> {c2}]>>}
MCGoals == {<<0, 1>>, <<1, 1>>, <<6, 5>>, <<5, 2>>, <<3, 1>>}
MCExpected == {[mean |-> 1, sd |-> 0], [mean |-> 2, sd |-> 1]}

LibInit ==
  /\ Init /\ MonInit
  /\ \/ part = "application" /\ monitor = "memory"
     \/ part = "monitor" /\ kind = "PLAIN" /\ agora

\* The clock of the monitor stops at its bound, the application does not stop.
LibNext ==
  /\ UNCHANGED part
  /\ \/ part = "application" /\ Next /\ UNCHANGED monVars
     \/ part = "monitor" /\ MonNext /\ UNCHANGED vars

LibVars == <<part, vars, monVars>>

\* The application keeps going round its loop.
LibSpec ==
  /\ LibInit /\ [][LibNext]_LibVars
  /\ WF_LibVars(part = "application" /\ Loop /\ UNCHANGED <<part, monVars>>)

=============================================================================
