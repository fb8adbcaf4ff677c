----------------------------- MODULE MCAuditScans -----------------------------
(* Instances of AuditScans for TLC.                                          *)
EXTENDS AuditScans

\* Everything runs on every target.
FullPlan ==
  [jas |-> TRUE, scanner |-> "ok", scans |-> {}, skip |-> [t \in Targets |-> {}],
   noModule |-> {}, thirdParty |-> FALSE, firstDiff |-> FALSE, allowPartial |-> FALSE]

\* Two scanners per target, contextual analysis one of them.
TwoScanners ==
  [FullPlan EXCEPT !.scans = {"sca", "ca", "secrets"}]

RacePlans ==
  {TwoScanners, [TwoScanners EXCEPT !.allowPartial = TRUE]}

\* Every way a plan can narrow the scans of a target, the other one having none.
NarrowPlans ==
  {[FullPlan EXCEPT !.jas = j, !.scanner = c, !.scans = s, !.thirdParty = th, !.firstDiff = d, !.allowPartial = p,
                    !.skip = [t \in Targets |-> IF t = 1 THEN k ELSE SubScans]] :
     j \in BOOLEAN, c \in {"ok", "none", "error", "both"},
     s \in {{"sca", "ca"}, {"sca", "secrets", "sast"}, {"ca", "iac", "services"}},
     k \in {{}, {"sca"}, {"secrets"}},
     th \in BOOLEAN, d \in BOOLEAN, p \in BOOLEAN}

\* One worker; a target without a module, or a target without dependencies, or
\* narrowed (with third-party scans or a diff when the scanners can be made).
SinglePlans ==
  {TwoScanners,
   [TwoScanners EXCEPT !.noModule = {1}, !.allowPartial = TRUE],
   [TwoScanners EXCEPT !.skip = [t \in Targets |-> IF t = 1 THEN {"sca"} ELSE {"ca"}]],
   [TwoScanners EXCEPT !.noModule = Targets]}
  \cup {q \in NarrowPlans : q.thirdParty \/ q.firstDiff => q.jas /\ q.scanner = "ok"}

OkOrFail == {<<0, FALSE>>, <<1, TRUE>>}
AllOutcomes == {0, 1} \X BOOLEAN
=============================================================================
