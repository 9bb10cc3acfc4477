------------------------ MODULE ConfigLoadingProofs ------------------------
(***************************************************************************)
(* ConfigLoading for every set of files and any number of loads.  The      *)
(* invariant behind both properties: a config points only to cells its own *)
(* load allocated, the package variable holds no pointer for a key without *)
(* a default, and a load that has not happened has left its cells alone.   *)
(***************************************************************************)
EXTENDS ConfigLoading, TLAPS

OwnCells == \A n \in Load, k \in Keys : config[n][k] \in {Nil, n}
NoLeftovers == \A k \in Required : defaults[k] = Nil
Untouched ==
  \A n \in Load : n > loads => \A k \in Keys : cell[n][k] = "default"

IInv == TypeOK /\ OwnCells /\ NoLeftovers /\ Untouched /\ LoadsAreFunctional

-----------------------------------------------------------------------------
\* How the groups of keys lie to each other.
LEMMA KeyFacts ==
  /\ Keys = Required \cup Defaulted
  /\ Required \cap Defaulted = {} /\ Unchecked \subseteq Defaulted
  /\ "timeout_scale" \in Defaulted \ Unchecked
  /\ {"api", "apps_domain", "admin_user", "admin_password"} \subseteq Required
  /\ "file" \notin Keys
BY DEF Keys, Required, Defaulted, Unchecked, Timeouts, Buildpacks

\* A file says something about every key.
LEMMA FileFacts ==
  ASSUME NEW f \in Files
  PROVE  f # Unreadable => /\ f \in Content
                           /\ \A k \in Keys : f[k] \in {"absent", "null", "mistyped",
                                                         "good", "blank", "bad"}
BY ConfigAssumption DEF Content

\* A load's pointers: nil or its own cells, nil exactly for a null and for a key
\* without a default that the file does not give.
LEMMA PointersOfALoad ==
  ASSUME TypeOK, NoLeftovers, NEW f \in Files, NEW n \in Load
  PROVE  LET c == Decoded(GetDefaults(n), f, n) IN
         /\ c \in [Keys -> Pointer]
         /\ \A k \in Keys :
              /\ c[k] \in {Nil, n}
              /\ c[k] = Nil <=> \/ f # Unreadable /\ f[k] = "null"
                                \/ k \in Required /\ ~Given(f, k)
<1> DEFINE fresh == GetDefaults(n)
           c == Decoded(fresh, f, n)
<1>1. n # Nil /\ n \in Pointer /\ Nil \in Pointer
  BY ConfigAssumption DEF Nil, Load, Pointer
<1>2. fresh \in [Keys -> Pointer] /\ \A k \in Keys : fresh[k] = IF k \in Required THEN Nil ELSE n
  BY <1>1, KeyFacts DEF GetDefaults, NoLeftovers, TypeOK
<1>3. \A k \in Keys : c[k] = CASE f # Unreadable /\ f[k] = "null" -> Nil
                               [] Given(f, k) /\ fresh[k] = Nil -> n
                               [] OTHER -> fresh[k]
  BY DEF Decoded
<1>4. ASSUME NEW k \in Keys
      PROVE  ~(f # Unreadable /\ f[k] = "null" /\ Given(f, k))
  BY DEF Given, Values
<1> HIDE DEF fresh
<1>5. c = [k \in Keys |-> c[k]]
  BY DEF Decoded
<1> HIDE DEF c
<1>6. \A k \in Keys : /\ c[k] \in {Nil, n}
                      /\ c[k] = Nil <=> \/ f # Unreadable /\ f[k] = "null"
                                        \/ k \in Required /\ ~Given(f, k)
  BY <1>1, <1>2, <1>3, <1>4
<1>7. c \in [Keys -> Pointer]
  BY <1>1, <1>5, <1>6
<1> QED BY <1>6, <1>7 DEF c, fresh

\* What a load writes goes into its own cells.
LEMMA WritesOfALoad ==
  ASSUME TypeOK, Untouched, NEW f \in Files, NEW n \in Load, n > loads,
         NEW c \in [Keys -> Pointer], \A k \in Keys : c[k] \in {Nil, n}
  PROVE  /\ Written(c, f) \in [Load -> [Keys -> Values]]
         /\ \A m \in Load : m # n => Written(c, f)[m] = cell[m]
         /\ \A k \in Keys : Written(c, f)[n][k] = IF c[k] = n /\ Given(f, k) THEN f[k]
                                                  ELSE "default"
<1>1. \A m \in Load : m # Nil
  BY DEF Load, Nil
<1>2. \A m \in Load, k \in Keys :
        Written(c, f)[m][k] = IF c[k] = m /\ Given(f, k) THEN f[k] ELSE cell[m][k]
  BY DEF Written
<1>3. ASSUME NEW m \in Load, m # n
      PROVE  Written(c, f)[m] = cell[m]
  <2>1. \A k \in Keys : c[k] # m
    BY <1>1, <1>3
  <2>2. Written(c, f)[m] = [k \in Keys |-> cell[m][k]]
    BY <2>1 DEF Written
  <2>3. cell[m] \in [Keys -> Values]
    BY DEF TypeOK
  <2> QED BY <2>2, <2>3
<1>4. Written(c, f) \in [Load -> [Keys -> Values]]
  BY DEF Written, Given, TypeOK
<1>5. \A k \in Keys : cell[n][k] = "default"
  BY DEF Untouched
<1> QED BY <1>2, <1>3, <1>4, <1>5

-----------------------------------------------------------------------------
LEMMA InitInv == Init => IInv
<1> SUFFICES ASSUME Init PROVE IInv
  OBVIOUS
<1>1. 0 \in 0..MaxLoads /\ 1..0 = {}
  BY ConfigAssumption
<1>2. TypeOK
  BY <1>1 DEF Init, TypeOK, Values, Pointer, Nil
<1> QED BY <1>1, <1>2, KeyFacts
        DEF Init, IInv, OwnCells, NoLeftovers, Untouched, LoadsAreFunctional

\* What a step of the specification does to the variables, for a load n of f.
LEMMA StepOfALoad ==
  ASSUME IInv, NEW f \in Files, NewConfig(f)
  PROVE  \E n \in Load :
           LET c == Decoded(GetDefaults(n), f, n)
               w == Written(c, f)
               errs == IF Unmarshals(f) THEN Reported(c, w) ELSE {"file"}
           IN /\ n = loads + 1 /\ loads' = n
              /\ file' = [file EXCEPT ![n] = f]
              /\ defaults' = GetDefaults(n)
              /\ config' = [config EXCEPT ![n] = c]
              /\ reported' = [reported EXCEPT ![n] = errs]
              /\ cell' \in [Load -> [Keys -> Values]]
              /\ \A m \in Load : m # n => cell'[m] = cell[m]
              /\ errs = {} => \A k \in Keys :
                   cell'[n][k] = IF k = "timeout_scale" /\ w[n][k] = "bad" THEN "one"
                                 ELSE w[n][k]
<1> DEFINE n == loads + 1
           c == Decoded(GetDefaults(n), f, n)
           w == Written(c, f)
           errs == IF Unmarshals(f) THEN Reported(c, w) ELSE {"file"}
<1>1. n \in Load /\ n > loads
  BY ConfigAssumption DEF NewConfig, IInv, TypeOK, Load
<1>2. /\ loads' = n
      /\ file' = [file EXCEPT ![n] = f]
      /\ defaults' = GetDefaults(n)
      /\ config' = [config EXCEPT ![n] = c]
      /\ reported' = [reported EXCEPT ![n] = errs]
      /\ cell' = IF errs = {} THEN Scaled(c, w) ELSE w
  BY DEF NewConfig, LeftByCopy
<1>3. c \in [Keys -> Pointer] /\ \A k \in Keys : c[k] \in {Nil, n}
  BY <1>1, PointersOfALoad DEF IInv
<1>4. w \in [Load -> [Keys -> Values]] /\ \A m \in Load : m # n => w[m] = cell[m]
  BY <1>1, <1>3, WritesOfALoad DEF IInv
<1>5. errs = {} => c["timeout_scale"] = n
  BY <1>3, KeyFacts DEF Reported
<1> HIDE DEF n, c, w, errs
<1>6. CASE errs = {}
  <2>1. Scaled(c, w) = IF w[n]["timeout_scale"] = "bad"
                         THEN [w EXCEPT ![n]["timeout_scale"] = "one"] ELSE w
    BY <1>5, <1>6 DEF Scaled
  <2>2. cell' = Scaled(c, w)
    BY <1>2, <1>6
  <2>3. cell' \in [Load -> [Keys -> Values]] /\ \A m \in Load : m # n => cell'[m] = cell[m]
    BY <1>1, <1>4, <2>1, <2>2, KeyFacts DEF Values
  <2>4. \A k \in Keys : cell'[n][k] = IF k = "timeout_scale" /\ w[n][k] = "bad" THEN "one"
                                     ELSE w[n][k]
    BY <1>1, <1>4, <2>1, <2>2, KeyFacts
  <2> QED BY <1>1, <1>2, <2>3, <2>4 DEF n, c, w, errs
<1>7. CASE errs # {}
  BY <1>1, <1>2, <1>4, <1>7 DEF n, c, w, errs
<1> QED BY <1>6, <1>7

\* A load reports nothing exactly when its file is acceptable.
LEMMA AcceptedWhenAcceptable ==
  ASSUME NEW f \in Files, NEW n \in Load, NEW c \in [Keys -> Pointer],
         NEW w \in [Load -> [Keys -> Values]],
         \A k \in Keys :
            /\ c[k] \in {Nil, n}
            /\ c[k] = Nil <=> \/ f # Unreadable /\ f[k] = "null"
                              \/ k \in Required /\ ~Given(f, k),
         \A k \in Keys : w[n][k] = IF c[k] = n /\ Given(f, k) THEN f[k] ELSE "default"
  PROVE  (Unmarshals(f) /\ Reported(c, w) = {}) <=> Acceptable(f)
<1>1. n # Nil
  BY DEF Load, Nil
<1>2. CASE ~Unmarshals(f)
  BY <1>2 DEF Unmarshals, Acceptable
<1>3. CASE Unmarshals(f)
  <2>1. f # Unreadable /\ \A k \in Keys : f[k] \in {"absent", "null", "good", "blank", "bad"}
    BY <1>3, FileFacts DEF Unmarshals
  <2>2. \A k \in Keys : Given(f, k) <=> f[k] \in {"good", "blank", "bad"}
    BY <2>1 DEF Given, Values
  <2>3. \A k \in Keys : c[k] = Nil <=> f[k] = "null" \/ (k \in Required /\ f[k] = "absent")
    BY <2>1, <2>2
  <2>4. \A k \in Keys : c[k] # Nil => w[c[k]][k] = IF Given(f, k) THEN f[k] ELSE "default"
    BY <1>1
  <2>5. (\A k \in Keys \ Unchecked : c[k] # Nil)
          <=> /\ \A k \in Keys \ Unchecked : f[k] # "null"
              /\ \A k \in Required : f[k] # "absent"
    BY <2>3, KeyFacts
  <2>6. ASSUME \A k \in Keys \ Unchecked : c[k] # Nil
        PROVE  (\A k \in Keys : c[k] # Nil => w[c[k]][k] \notin Refused(k))
                 <=> /\ {f["api"], f["apps_domain"]} = {"good"}
                     /\ "blank" \notin {f["admin_user"], f["admin_password"]}
    <3>1. \A k \in Required : c[k] # Nil /\ w[c[k]][k] = f[k] /\ f[k] \in {"good", "blank", "bad"}
      BY <2>1, <2>2, <2>3, <2>4, <2>6, KeyFacts
    <3>2. \A k \in Keys : k \notin {"api", "apps_domain", "admin_user", "admin_password"}
                            => Refused(k) = {}
      BY DEF Refused
    <3>3. /\ Refused("api") = {"blank", "bad"} /\ Refused("apps_domain") = {"blank", "bad"}
          /\ Refused("admin_user") = {"blank"} /\ Refused("admin_password") = {"blank"}
      BY DEF Refused
    <3>4. (\A k \in Keys : c[k] # Nil => w[c[k]][k] \notin Refused(k))
            <=> \A k \in {"api", "apps_domain", "admin_user", "admin_password"} :
                   f[k] \notin Refused(k)
      BY <3>1, <3>2, KeyFacts
    <3>5. (\A k \in {"api", "apps_domain", "admin_user", "admin_password"} : f[k] \notin Refused(k))
            <=> /\ f["api"] \notin {"blank", "bad"} /\ f["apps_domain"] \notin {"blank", "bad"}
                /\ f["admin_user"] # "blank" /\ f["admin_password"] # "blank"
      BY <3>3
    <3>6. \A v \in {"good", "blank", "bad"} : v \notin {"blank", "bad"} <=> v = "good"
      OBVIOUS
    <3>7. f["api"] \in {"good", "blank", "bad"} /\ f["apps_domain"] \in {"good", "blank", "bad"}
      BY <3>1, KeyFacts
    <3> QED BY <3>4, <3>5, <3>6, <3>7
  <2>7. Reported(c, w) = {}
          <=> /\ \A k \in Keys \ Unchecked : c[k] # Nil
              /\ \A k \in Keys : c[k] # Nil => w[c[k]][k] \notin Refused(k)
    BY DEF Reported
  <2>8. \A k \in Keys : f[k] # "mistyped"
    BY <2>1
  <2> QED BY <1>3, <2>1, <2>5, <2>6, <2>7, <2>8 DEF Acceptable
<1> QED BY <1>2, <1>3

\* The config and the value of an earlier load survive a later one.
LEMMA EarlierLoadsStay ==
  ASSUME IInv, NEW f \in Files, NewConfig(f), NEW m \in Load, m <= loads
  PROVE  /\ config'[m] = config[m] /\ file'[m] = file[m] /\ reported'[m] = reported[m]
         /\ \A k \in Keys : ValueOf(m, k)' = ValueOf(m, k)
<1>1. PICK n \in Load : /\ n = loads + 1
                        /\ config' = [config EXCEPT ![n] = Decoded(GetDefaults(n), f, n)]
                        /\ file' = [file EXCEPT ![n] = f]
                        /\ \E errs : reported' = [reported EXCEPT ![n] = errs]
                        /\ \A l \in Load : l # n => cell'[l] = cell[l]
  BY StepOfALoad
<1>2. m # n
  BY <1>1 DEF IInv, TypeOK, Load
<1>3. config'[m] = config[m] /\ file'[m] = file[m] /\ reported'[m] = reported[m]
  BY <1>1, <1>2 DEF IInv, TypeOK
<1>4. \A k \in Keys : config[m][k] \in {Nil, m}
  BY DEF IInv, OwnCells
<1>5. cell'[m] = cell[m]
  BY <1>1, <1>2
<1> QED BY <1>3, <1>4, <1>5 DEF ValueOf

LEMMA LoadStep ==
  ASSUME IInv, NEW f \in Files, NewConfig(f)
  PROVE  IInv'
<1> DEFINE ptr(n) == Decoded(GetDefaults(n), f, n)
           errsOf(c, w) == IF Unmarshals(f) THEN Reported(c, w) ELSE {"file"}
<1>1. PICK n \in Load :
        /\ n = loads + 1 /\ loads' = n
        /\ file' = [file EXCEPT ![n] = f]
        /\ defaults' = GetDefaults(n)
        /\ config' = [config EXCEPT ![n] = ptr(n)]
        /\ reported' = [reported EXCEPT ![n] = errsOf(ptr(n), Written(ptr(n), f))]
        /\ cell' \in [Load -> [Keys -> Values]]
        /\ \A m \in Load : m # n => cell'[m] = cell[m]
        /\ errsOf(ptr(n), Written(ptr(n), f)) = {} => \A k \in Keys :
             cell'[n][k] = IF k = "timeout_scale" /\ Written(ptr(n), f)[n][k] = "bad" THEN "one"
                           ELSE Written(ptr(n), f)[n][k]
  BY StepOfALoad
<1> DEFINE c == ptr(n)
           w == Written(c, f)
           errs == errsOf(c, w)
<1>2. n \in Nat /\ loads \in Nat /\ n > loads /\ n # Nil
  BY <1>1, ConfigAssumption DEF IInv, TypeOK, Load, Nil
<1>3. /\ c \in [Keys -> Pointer]
      /\ \A k \in Keys :
           /\ c[k] \in {Nil, n}
           /\ c[k] = Nil <=> \/ f # Unreadable /\ f[k] = "null"
                             \/ k \in Required /\ ~Given(f, k)
  BY <1>1, PointersOfALoad DEF IInv
<1>4. /\ w \in [Load -> [Keys -> Values]]
      /\ \A k \in Keys : w[n][k] = IF c[k] = n /\ Given(f, k) THEN f[k] ELSE "default"
  BY <1>1, <1>2, <1>3, WritesOfALoad DEF IInv
<1>5. (Unmarshals(f) /\ Reported(c, w) = {}) <=> Acceptable(f)
  BY <1>1, <1>3, <1>4, AcceptedWhenAcceptable
<1>6. errs = {} <=> Acceptable(f)
  BY <1>5
<1>7. errs \in SUBSET (Keys \cup {"file"})
  BY DEF Reported
<1>8. GetDefaults(n) \in [Keys -> Pointer] /\ \A k \in Required : GetDefaults(n)[k] = Nil
  BY <1>1, KeyFacts DEF IInv, TypeOK, NoLeftovers, GetDefaults, Load, Pointer
<1> HIDE DEF c, w, errs, errsOf, ptr
<1>9. config' = [config EXCEPT ![n] = c] /\ reported' = [reported EXCEPT ![n] = errs]
  BY <1>1 DEF c, w, errs
<1>10. TypeOK'
  <2>1. loads' \in 0..MaxLoads
    BY <1>1, ConfigAssumption DEF Load
  <2>2. file' \in [Load -> Files \cup {Unreadable}]
    BY <1>1 DEF IInv, TypeOK
  <2>3. config' \in [Load -> [Keys -> Pointer]]
    BY <1>3, <1>9 DEF IInv, TypeOK
  <2>4. reported' \in [Load -> SUBSET (Keys \cup {"file"})]
    BY <1>7, <1>9 DEF IInv, TypeOK
  <2> QED BY <1>1, <1>8, <2>1, <2>2, <2>3, <2>4 DEF TypeOK
<1>11. OwnCells'
  BY <1>3, <1>9 DEF IInv, TypeOK, OwnCells
<1>12. NoLeftovers'
  BY <1>1, <1>8 DEF NoLeftovers
<1>13. Untouched'
  <2>1. ASSUME NEW m \in Load, m > loads'
        PROVE  m > loads /\ m # n
    BY <1>1, <1>2, <2>1 DEF Load
  <2> QED BY <1>1, <2>1 DEF IInv, Untouched
<1>14. LoadsAreFunctional'
  <2>1. ASSUME NEW m \in 1..loads
        PROVE  /\ m \in Accepted' <=> Acceptable(file'[m])
               /\ m \in Accepted' => \A k \in Keys : ValueOf(m, k)' = Meant(file'[m], k)
    <3>1. m \in Load /\ m <= loads
      BY <1>1, <1>2, ConfigAssumption, <2>1 DEF Load
    <3>2. m \in Accepted' <=> m \in Accepted
      BY <1>1, <1>2, <2>1, <3>1, EarlierLoadsStay DEF Accepted
    <3> QED BY <2>1, <3>1, <3>2, EarlierLoadsStay DEF IInv, LoadsAreFunctional
  <2>2. n \in Accepted' <=> Acceptable(f)
    BY <1>1, <1>2, <1>6, <1>9 DEF Accepted, IInv, TypeOK
  <2>3. ASSUME Acceptable(f), NEW k \in Keys
        PROVE  ValueOf(n, k)' = Meant(f, k)
    <3>1. ValueOf(n, k)' = IF c[k] = Nil THEN "null" ELSE cell'[n][k]
      BY <1>3, <1>9 DEF ValueOf, IInv, TypeOK
    <3>2. cell'[n][k] = IF k = "timeout_scale" /\ w[n][k] = "bad" THEN "one" ELSE w[n][k]
      BY <1>1, <1>6, <2>3 DEF c, w, errs
    <3>3. f # Unreadable /\ f[k] \in {"absent", "null", "good", "blank", "bad"}
            /\ (k \in Required => f[k] \notin {"absent", "null"})
      BY <2>3, FileFacts, KeyFacts DEF Acceptable
    <3>4. Given(f, k) <=> f[k] \in {"good", "blank", "bad"}
      BY <3>3 DEF Given, Values
    <3>5. c[k] = Nil <=> f[k] = "null"
      BY <1>3, <3>3, <3>4
    <3>6. f[k] # "null" => c[k] = n /\ w[n][k] = IF Given(f, k) THEN f[k] ELSE "default"
      BY <1>3, <1>4, <3>5
    <3>7. CASE f[k] = "null"
      BY <3>1, <3>5, <3>7 DEF Meant
    <3>8. CASE f[k] = "absent"
      BY <1>2, <3>1, <3>2, <3>4, <3>6, <3>8 DEF Meant
    <3>9. CASE f[k] \in {"good", "blank", "bad"}
      BY <1>2, <3>1, <3>2, <3>4, <3>6, <3>9 DEF Meant
    <3> QED BY <3>3, <3>7, <3>8, <3>9
  <2>4. file'[n] = f
    BY <1>1 DEF IInv, TypeOK
  <2>5. \A m \in 1..loads' : m \in 1..loads \/ m = n
    BY <1>1, <1>2
  <2> QED BY <2>1, <2>2, <2>3, <2>4, <2>5 DEF LoadsAreFunctional
<1> QED BY <1>10, <1>11, <1>12, <1>13, <1>14 DEF IInv

-----------------------------------------------------------------------------
\* The invariant holds in every state of any number of loads.
THEOREM ConfigInvariance == Spec => []IInv
<1>1. Init => IInv
  BY InitInv
<1>2. IInv /\ [Next]_vars => IInv'
  <2> SUFFICES ASSUME IInv, [Next]_vars PROVE IInv'
    OBVIOUS
  <2>1. CASE Next
    BY <2>1, LoadStep DEF Next
  <2>2. CASE UNCHANGED vars
    BY <2>2 DEF vars, IInv, TypeOK, OwnCells, NoLeftovers, Untouched, LoadsAreFunctional,
               Accepted, ValueOf
  <2> QED BY <2>1, <2>2
<1> QED BY <1>1, <1>2, PTL DEF Spec

\* Every reachable state of the loader is well typed, whatever files it is given.
THEOREM ConfigTypeCorrect == Spec => []TypeOK
<1>1. IInv => TypeOK
  BY DEF IInv
<1> QED BY <1>1, ConfigInvariance, PTL

\* What NewConfig returns for a file depends on that file alone: it is accepted
\* when it is acceptable, and then has the file's values and the defaults.
THEOREM LoadIsFunctional == Spec => []LoadsAreFunctional
<1>1. IInv => LoadsAreFunctional
  BY DEF IInv
<1> QED BY <1>1, ConfigInvariance, PTL

\* No later NewConfig changes a config that was returned before.
THEOREM ConfigsAreImmutable == Spec => ConfigsStayPut
<1> DEFINE Stays == \A n \in Accepted : /\ config'[n] = config[n]
                                        /\ \A k \in Keys : ValueOf(n, k)' = ValueOf(n, k)
<1>1. IInv /\ [Next]_vars => [Stays]_vars
  <2> SUFFICES ASSUME IInv, Next PROVE Stays
    OBVIOUS
  <2>1. PICK f \in Files : NewConfig(f)
    BY DEF Next
  <2>2. \A n \in Accepted : n \in Load /\ n <= loads
    BY ConfigAssumption DEF Accepted, IInv, TypeOK, Load
  <2> QED BY <2>1, <2>2, EarlierLoadsStay
<1> QED BY <1>1, ConfigInvariance, PTL DEF Spec, ConfigsStayPut
=============================================================================
