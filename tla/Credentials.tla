---------------------------- MODULE Credentials ----------------------------
(***************************************************************************)
(* What the release of a credential waits for: its provider, the commands   *)
(* that a provider runs (or approve_cmd), and the operator's decision in    *)
(* the approval queue.  They share no state: a command that a provider's    *)
(* method runs is one step of it, and an approval is asked for before the   *)
(* provider is.                                                             *)
(***************************************************************************)
EXTENDS Providers, ApprovalQueue

VARIABLES runner, where, leader, helper, reaped, result   \* ProviderCommand

Command == INSTANCE ProviderCommand WITH Runners <- {"bw", "askpass", "pass", "approve"}, at <- where

\* ProviderCommand: every command returns.
CommandReturns == Command!CommandReturns

\* ProviderCommand: nothing is left of the process group of a bw or an approve_cmd that
\* ran into its timeout.
TimedOutGroupGone == Command!TimedOutGroupGone

\* ProviderCommand: nothing is left of the process group of any command that did.
WholeGroupKilled == Command!WholeGroupKilled
=============================================================================
