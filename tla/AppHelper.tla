------------------------------ MODULE AppHelper ------------------------------
(***************************************************************************)
(* What AppHelper.m keeps for the phone: the registration mode, the        *)
(* account, whether the network is there, and the sleep and quit requests  *)
(* that wait for the phone to be off.                                      *)
(***************************************************************************)
CONSTANT NoAccount    \* an incomplete account: no phone number for the provider

VARIABLES onDemand,     \* onDemandRegister: register only around an outgoing call
          account,      \* the account sipFrom and sipProxy describe, or NoAccount
          network,      \* networkAvailable
          power         \* the pending sleep and quit requests

helperVars == <<onDemand, account, network, power>>

Power == [sleepRequested : BOOLEAN,
          exitRequested : BOOLEAN,
          unanswered : BOOLEAN,    \* a will-sleep message waits for IOAllowPowerChange
          terminated : BOOLEAN]    \* the application has left, or has crashed

PowerInit == power = [sleepRequested |-> FALSE, exitRequested |-> FALSE,
                      unanswered |-> FALSE, terminated |-> FALSE]

sleepOk(p) == [p EXCEPT !.sleepRequested = FALSE, !.unanswered = FALSE]

\* Mutant: only sleep is answered.
phoneIsOffForSleep(p) == IF p.sleepRequested THEN sleepOk(p) ELSE p

\* Called by the phone on entering sip_off or sip_ondemand.
phoneIsOff(p) ==
    LET q == IF p.sleepRequested THEN sleepOk(p) ELSE p
    IN [q EXCEPT !.terminated = p.exitRequested]
=============================================================================
