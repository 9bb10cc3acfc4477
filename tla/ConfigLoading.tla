--------------------------- MODULE ConfigLoading ---------------------------
(***************************************************************************)
(* NewConfig (helpers/config/config_struct.go), called any number of times *)
(* in one process.  A config is a struct of pointers; the package variable *)
(* defaults is one too, its pointers are renewed by getDefaults and copied *)
(* into the config that is returned, and the JSON decoder writes through   *)
(* the pointers it finds.  So a config and the variable share cells, and a *)
(* load could reach a config that was returned before.                     *)
(*                                                                         *)
(* A cell is named by the load that allocated it (for the key at hand), 0  *)
(* is Go's nil.  A key's value is one of a few classes: what validation    *)
(* tells apart.                                                            *)
(***************************************************************************)
EXTENDS Integers

CONSTANTS
  MaxLoads,   \* bound: loads in one process
  Files,      \* what $CONFIG may hold, see Content
  Unreadable  \* $CONFIG is missing, unreadable or not JSON

Nil == 0

\* The struct's keys: without a default; with one, grouped as below.
Required == {"api", "apps_domain", "admin_user", "admin_password", "skip_ssl_validation"}
Timeouts == {"async_service_operation_timeout", "broker_start_timeout", "cf_push_timeout",
             "default_timeout", "detect_timeout", "long_curl_timeout", "sleep_timeout",
             "cc_clock_cycle"}
Buildpacks == {"binary_buildpack_name", "go_buildpack_name", "hwc_buildpack_name",
               "nodejs_buildpack_name", "php_buildpack_name", "python_buildpack_name",
               "ruby_buildpack_name", "staticfile_buildpack_name"}
Unchecked == {"local_blobstore", "infrastructure", "gcloud_project_name", "cluster_zone",
              "cluster_name", "reporter_config"}
Defaulted == Timeouts \cup Buildpacks \cup Unchecked
               \cup {"timeout_scale", "artifacts_directory", "name_prefix"}
Keys == Required \cup Defaulted

\* Keys of the repository's own config files that the struct has no field for.
Unknown == {"java_buildpack_name"}

\* "blank" is the empty string, "bad" a name that does not parse or resolve, or
\* a number that is not positive; "one" is the scale such a number becomes.
Values == {"default", "good", "blank", "bad", "one"}
Content == [Keys \cup Unknown -> {"absent", "null", "mistyped", "good", "blank", "bad"}]

ASSUME ConfigAssumption ==
  /\ MaxLoads \in Nat \ {0}
  /\ Files \subseteq Content \cup {Unreadable}
  /\ Unreadable \notin Content

Load == 1..MaxLoads
Pointer == 0..MaxLoads

VARIABLES
  loads,    \* how many so far
  file,     \* what each of them was given
  cell,     \* the values the pointers point to
  defaults, \* the package variable
  config,   \* the config each load built
  reported  \* the errors it returned, by key; "file" for one of the file

vars == <<loads, file, cell, defaults, config, reported>>

TypeOK ==
  /\ loads \in 0..MaxLoads
  /\ file \in [Load -> Files \cup {Unreadable}]
  /\ cell \in [Load -> [Keys -> Values]]
  /\ defaults \in [Keys -> Pointer]
  /\ config \in [Load -> [Keys -> Pointer]]
  /\ reported \in [Load -> SUBSET (Keys \cup {"file"})]

Init ==
  /\ loads = 0
  /\ file = [n \in Load |-> Unreadable]
  /\ cell = [n \in Load |-> [k \in Keys |-> "default"]]
  /\ defaults = [k \in Keys |-> Nil]
  /\ config = [n \in Load |-> [k \in Keys |-> Nil]]
  /\ reported = [n \in Load |-> {"file"}]

-----------------------------------------------------------------------------
\* A faulty getDefaults: it fills in a default only once.
GetDefaultsOnce(n) ==
  [k \in Keys |-> IF k \in Defaulted /\ defaults[k] = Nil THEN n ELSE defaults[k]]

\* getDefaults: every default in a cell of its own, whatever was there before.
GetDefaults(n) == [k \in Keys |-> IF k \in Defaulted THEN n ELSE defaults[k]]

\* A faulty NewConfig: it decodes into the package variable.
LeftInDefaults(fresh, decoded) == decoded

\* What a load leaves in the package variable: d is a copy of it.
LeftByCopy(fresh, decoded) == fresh

Given(f, k) == f # Unreadable /\ f[k] \in Values

\* json.Decoder: null is nil, a value goes into the cell the pointer points to,
\* a new one if it is nil; a value of the wrong type is passed over.
Decoded(ptr, f, n) ==
  [k \in Keys |-> CASE f # Unreadable /\ f[k] = "null" -> Nil
                    [] Given(f, k) /\ ptr[k] = Nil -> n
                    [] OTHER -> ptr[k]]

Written(ptr, f) ==
  [n \in Load |-> [k \in Keys |-> IF ptr[k] = n /\ Given(f, k) THEN f[k] ELSE cell[n][k]]]

Unmarshals(f) == f # Unreadable /\ \A k \in Keys : f[k] # "mistyped"

\* The values the four validators refuse; each of them looks up a host or a blank.
Refused(k) ==
  CASE k \in {"api", "apps_domain"} -> {"blank", "bad"}
    [] k \in {"admin_user", "admin_password"} -> {"blank"}
    [] OTHER -> {}

\* validateConfig: the nils it does not accept, and the values it does not.
Reported(ptr, cells) ==
  {k \in Keys \ Unchecked : ptr[k] = Nil}
    \cup {k \in Keys : ptr[k] # Nil /\ cells[ptr[k]][k] \in Refused(k)}

\* A faulty load: a scale that is not positive is cut off at zero.
ScaledToZero(ptr, cells) ==
  LET p == ptr["timeout_scale"] IN
  IF cells[p]["timeout_scale"] = "bad"
    THEN [cells EXCEPT ![p]["timeout_scale"] = "zero"]
    ELSE cells

\* load: a timeout_scale that is not positive becomes 1.0, in its cell.
Scaled(ptr, cells) ==
  LET p == ptr["timeout_scale"] IN
  IF cells[p]["timeout_scale"] = "bad"
    THEN [cells EXCEPT ![p]["timeout_scale"] = "one"]
    ELSE cells

NewConfig(f) ==
  LET n == loads + 1
      fresh == GetDefaults(n)
      c == Decoded(fresh, f, n)
      written == Written(c, f)
      errs == IF Unmarshals(f) THEN Reported(c, written) ELSE {"file"}
  IN /\ n <= MaxLoads
     /\ loads' = n
     /\ file' = [file EXCEPT ![n] = f]
     /\ defaults' = LeftByCopy(fresh, c)
     /\ config' = [config EXCEPT ![n] = c]
     /\ reported' = [reported EXCEPT ![n] = errs]
     /\ cell' = IF errs = {} THEN Scaled(c, written) ELSE written

Next == \E f \in Files : NewConfig(f)

Spec == Init /\ [][Next]_vars

-----------------------------------------------------------------------------
(* Properties. *)

\* The loads that returned a config; the others returned nil and their errors.
Accepted == {n \in 1..loads : reported[n] = {}}

ValueOf(n, k) == IF config[n][k] = Nil THEN "null" ELSE cell[config[n][k]][k]

\* A config, once returned, never changes: no later load, whatever its file says,
\* whether it succeeds or fails, reaches it through a cell the two share with the
\* package variable defaults.
ConfigsStayPut ==
  [][\A n \in Accepted : /\ config'[n] = config[n]
                         /\ \A k \in Keys : ValueOf(n, k)' = ValueOf(n, k)]_vars

\* What a file alone says a load of it must return.
Meant(f, k) ==
  CASE f[k] = "absent" -> "default"
    [] k = "timeout_scale" /\ f[k] = "bad" -> "one"
    [] OTHER -> f[k]

Acceptable(f) ==
  /\ f # Unreadable
  /\ \A k \in Keys : f[k] # "mistyped"
  /\ \A k \in Keys \ Unchecked : f[k] # "null"
  /\ \A k \in Required : f[k] # "absent"
  /\ {f["api"], f["apps_domain"]} = {"good"}
  /\ "blank" \notin {f["admin_user"], f["admin_password"]}

\* A load is a function of its file, whatever was loaded before: the file is
\* accepted exactly when it says what is needed and says it well, and the config
\* has the file's values and the defaults of getDefaults for the rest.
LoadsAreFunctional ==
  \A n \in 1..loads :
    /\ n \in Accepted <=> Acceptable(file[n])
    /\ n \in Accepted => \A k \in Keys : ValueOf(n, k) = Meant(file[n], k)

\* "when all values are null ... returns an error" (config_test.go:197-231): every
\* key that test expects to read about is reported.
TestedNulls ==
  (Required \cup Timeouts \cup Buildpacks
     \cup {"artifacts_directory", "timeout_scale", "java_buildpack_name", "name_prefix"})
   \ {"cc_clock_cycle", "hwc_buildpack_name"}

NullsAreReported ==
  \A n \in 1..loads :
    (file[n] # Unreadable /\ \A k \in TestedNulls : file[n][k] = "null")
      => TestedNulls \subseteq reported[n]
=============================================================================
