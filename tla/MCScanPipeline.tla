---------------------------- MODULE MCScanPipeline ----------------------------
(* Instances of ScanPipeline for TLC.                                        *)
EXTENDS ScanPipeline

\* Two groups, the second with one file.
TwoGroups == [f \in Files |-> IF f = CHOOSE g \in Files : TRUE THEN 2 ELSE 1]

AllPlans ==
  [sca : BOOLEAN, sbom : BOOLEAN, jas : BOOLEAN,
   scanners : {{}, {"secrets"}, {"ca", "secrets"}}]
=============================================================================
