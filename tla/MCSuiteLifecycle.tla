-------------------------- MODULE MCSuiteLifecycle --------------------------
(* Two Ginkgo processes, three specs of which one is labelled               *)
(* "no-cf-setup" and one is the quota spec, two archives, three starts of   *)
(* the suite.                                                               *)
EXTENDS SuiteLifecycle

CONSTANTS p1, p2, cf1, cf2, nocf, nil

const_Procs == {p1, p2}
const_Specs == {cf1, cf2, nocf}
const_NoCfSetup == {nocf}
=============================================================================
