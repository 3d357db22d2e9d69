----------------------------- MODULE MCMServer -----------------------------
(***************************************************************************)
(* Values for model checking MServer.                                       *)
(***************************************************************************)
EXTENDS MServer, TLC

\* lumi-attach asking to type, with the session token, and asking to watch.
RoleFlags == {{}, {"TOKEN"}, {"VIEW"}}

\* The same without those who watch only.
TypistFlags == {{}, {"TOKEN"}}

\* lumi-attach and lumi send-input.
InputFlags == {{}, {"TOKEN"}, {"OBSERVE", "INJECT"}}

PlainFlags == {{}}

Swap == Permutations(Procs)
=============================================================================
