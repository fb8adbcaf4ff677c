----------------------------- MODULE AuditPromise -----------------------------
(***************************************************************************)
(* What the scan phase of "jf audit" promises, without goroutines, locks,  *)
(* wait groups or a channel: every wanted scan settles once, contextual    *)
(* analysis after all SCA scans, the clean-up comes after the last scan,   *)
(* and the verdict counts every failure that may not be skipped.           *)
(***************************************************************************)
CONSTANTS
  Scans,      \* all scans of all targets
  ScaScans,   \* the SCA scans among them
  CaScans     \* the contextual analysis scans among them

VARIABLES
  wanted,     \* the scans that are to run
  settled,    \* the scans that recorded a result
  strict,     \* partial results are not allowed
  fatal,      \* something failed that may not be skipped
  ended,      \* the shared resources of the scans were cleaned up
  verdict     \* "none", then "aborted" or "processed"

pvars == <<wanted, settled, strict, fatal, ended, verdict>>

Init ==
  /\ wanted \in SUBSET Scans
  /\ settled = {}
  /\ strict \in BOOLEAN
  /\ fatal = FALSE
  /\ ended = FALSE
  /\ verdict = "none"

\* A failure b is fatal unless partial results are allowed.
Blame(b) == fatal' = (fatal \/ (strict /\ b))

Settle(x) ==
  /\ ~ended
  /\ x \in wanted \ settled
  /\ x \in CaScans => (wanted \cap ScaScans) \subseteq settled
  /\ settled' = settled \cup {x}
  /\ \E b \in BOOLEAN : Blame(b)
  /\ UNCHANGED <<wanted, strict, ended, verdict>>

\* The analyzer manager is missing: none of its scans has run or will.
GiveUpJas ==
  /\ ~ended
  /\ settled \subseteq ScaScans
  /\ wanted' = wanted \cap ScaScans
  /\ Blame(TRUE)
  /\ UNCHANGED <<settled, strict, ended, verdict>>

\* A failure outside the scans: no scanner, no module, or of the clean-up,
\* whose errors are fatal even when partial results are allowed.
Fail ==
  /\ verdict = "none"
  /\ \E b \in BOOLEAN : fatal' = (fatal \/ b)
  /\ UNCHANGED <<wanted, settled, strict, ended, verdict>>

End ==
  /\ ~ended
  /\ settled = wanted
  /\ ended' = TRUE
  /\ \E b \in BOOLEAN : fatal' = (fatal \/ b)
  /\ UNCHANGED <<wanted, settled, strict, verdict>>

Decide ==
  /\ ended /\ verdict = "none"
  /\ verdict' = IF fatal THEN "aborted" ELSE "processed"
  /\ UNCHANGED <<wanted, settled, strict, fatal, ended>>

Next == \/ \E x \in Scans : Settle(x)
        \/ GiveUpJas \/ Fail \/ End \/ Decide

Spec == Init /\ [][Next]_pvars
=============================================================================
