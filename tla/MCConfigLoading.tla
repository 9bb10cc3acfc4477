---------------------------- MODULE MCConfigLoading ----------------------------
(* Every file that differs from a minimal one, or from one with every key, in  *)
(* one key at most.                                                            *)
EXTENDS ConfigLoading

CONSTANT unreadable

AllKeys == Keys \cup Unknown
Minimal == [k \in AllKeys |-> IF k \in Required THEN "good" ELSE "absent"]
Full == [k \in AllKeys |-> "good"]
Contents(k) ==
  {"absent", "null", "mistyped", "good"}
    \cup IF k \in Required \ {"skip_ssl_validation"} THEN {"blank", "bad"}
         ELSE IF k = "timeout_scale" THEN {"bad"} ELSE {}

const_Files ==
  {unreadable}
    \cup UNION {{[base EXCEPT ![k] = c] : base \in {Minimal, Full}, c \in Contents(k)} : k \in Keys}
const_AllNull == {[k \in AllKeys |-> "null"]}
=============================================================================
