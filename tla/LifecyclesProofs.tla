-------------------------- MODULE LifecyclesProofs --------------------------
(***************************************************************************)
(* The specification of MCLifecycles, where one component runs and the     *)
(* others stay as they are at start: it implements the specification of    *)
(* each component, so whatever is proved of a component holds in it.       *)
(***************************************************************************)
EXTENDS MCLifecycles, ServerProofs, AdminProofs, ClientProofs, ClientSessionProofs

\* The server's components start as their own specifications say,
LEMMA ServerStarts ==
    LifecyclesInit => Init /\ DevInit /\ AccountsInit /\ PlanInit /\ OnAirInit /\ ViewInit
BY DEF LifecyclesInit, RadioAsleep, DeviceAsleep, AccountsAsleep, PlanAsleep, OnAirAsleep,
       ViewAsleep

\* and so do the client's.
LEMMA ClientStarts == LifecyclesInit => SessionInit /\ ListInit /\ CwInit /\ SnifferInit
BY DEF LifecyclesInit, SessionAsleep, ListAsleep, CwAsleep, SnifferAsleep

\* A step is one of the component that runs, and leaves the others' variables.
LEMMA LifecyclesSteps ==
    [LifecyclesNext]_allVars =>
        /\ [Next]_vars /\ [DevNext]_devVars /\ [SessionNext]_sessionVars /\ [ListNext]_listVars
        /\ [AccountsNext]_accountVars /\ [CwNext]_cwVars /\ [SnifferNext]_snifferVars
        /\ [PlanNext]_planVars /\ [OnAirNext]_onAirVars /\ [ViewNext]_viewVars
<1> DEFINE Parts ==
        /\ [Next]_vars /\ [DevNext]_devVars /\ [SessionNext]_sessionVars /\ [ListNext]_listVars
        /\ [AccountsNext]_accountVars /\ [CwNext]_cwVars /\ [SnifferNext]_snifferVars
        /\ [PlanNext]_planVars /\ [OnAirNext]_onAirVars /\ [ViewNext]_viewVars
<1>1. LifecyclesNext => Parts
  BY DEF LifecyclesNext
<1>2. UNCHANGED allVars => Parts
  BY DEF allVars
<1> QED BY <1>1, <1>2

\* Every component's specification is implemented.
THEOREM ComponentsImplemented ==
    LifecyclesSpec => /\ Spec /\ DevSpec /\ SessionSpec /\ ListSpec /\ AccountsSpec
                      /\ CwSpec /\ SnifferSpec /\ PlanSpec /\ OnAirSpec /\ ViewSpec
BY ServerStarts, ClientStarts, LifecyclesSteps, PTL
   DEF LifecyclesSpec, Spec, DevSpec, SessionSpec, ListSpec, AccountsSpec, CwSpec, SnifferSpec,
       PlanSpec, OnAirSpec, ViewSpec

\* All components keep their types, for any values of the constants.
THEOREM LifecyclesTypeCorrect == LifecyclesSpec => []LifecyclesTypeOK
BY ComponentsImplemented, ManagerTypeCorrect, DevTypeCorrect, SessionTypeCorrect,
   ListTypeCorrect, AccountsTypeCorrect, CwTypeCorrect, SnifferTypeCorrect, PlanTypeCorrect,
   OnAirTypeCorrect, ViewTypeCorrect, PTL DEF LifecyclesTypeOK

\* What the run checks in every state of it holds for any values of the constants:
\* nothing is lost or left behind, nobody is left keyed.
THEOREM LifecyclesAlwaysSafe ==
    LifecyclesSpec => [](/\ PortsAccounted /\ ServedInTurns /\ BridgesAreKnown /\ NoneLeftBehind
                         /\ SessionInOrder /\ ListInOrder /\ AccountsInOrder /\ SnifferInOrder
                         /\ PlanInOrder /\ QuietIsOff /\ HolderIsServed /\ ViewsAgree)
BY ComponentsImplemented, PortsAreAccounted, RegisteredAreServed, BridgesAreKnownHolds,
   NoneLeftBehindHolds, SessionInOrderHolds, ListInOrderHolds, AccountsAlwaysInOrder,
   SnifferInOrderHolds, PlanAlwaysInOrder, QuietIsAlwaysOff, HoldersAreServed, ViewsAgreeHolds,
   PTL
=============================================================================
