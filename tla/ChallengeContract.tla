--------------------------- MODULE ChallengeContract ---------------------------
(***************************************************************************)
(* What the passkey ceremonies promise of each WebAuthn challenge: it is   *)
(* minted, one ceremony has it accepted, and only then can others be       *)
(* refused as replays of it, the first of which is audited.  The claim     *)
(* row, its retention, the cookie and the requests are abstracted away.    *)
(***************************************************************************)
EXTENDS Naturals

CONSTANT Challenges

VARIABLES standing, audits

contractVars == <<standing, audits>>

ContractInit ==
    /\ standing = [ch \in Challenges |-> "unborn"]
    /\ audits = [ch \in Challenges |-> 0]

Moves(ch, from, to) ==
    /\ standing[ch] = from
    /\ standing' = [standing EXCEPT ![ch] = to]

Mint(ch) == Moves(ch, "unborn", "open") /\ UNCHANGED audits

Accept(ch) == Moves(ch, "open", "spent") /\ UNCHANGED audits

\* Later refusals change nothing.
Replay(ch) ==
    /\ Moves(ch, "spent", "replayed")
    /\ audits' = [audits EXCEPT ![ch] = 1]

ContractNext == \E ch \in Challenges : Mint(ch) \/ Accept(ch) \/ Replay(ch)

ContractSpec == ContractInit /\ [][ContractNext]_contractVars
=============================================================================
