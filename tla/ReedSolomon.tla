----------------------------- MODULE ReedSolomon -----------------------------
(***************************************************************************)
(* RsEncoder of reedsolomon.rs: the walk that generates the input bases,   *)
(* the exponents of the recovery rows and the coefficients.                *)
(***************************************************************************)
EXTENDS GaloisField, Sequences, FiniteSets, Functions

CONSTANTS
  MAX_INPUT_BLOCKS,
  MAX_RECOVERY_BLOCKS,
  Requests, \* sets of [input_count, first_exponent, recovery_count]
  Losses    \* sets of input slices that may be lost together

gcd[p \in Nat \X Nat] == IF p[2] = 0 THEN p[1] ELSE gcd[<<p[2], p[1] % p[2]>>]

\* The limit on input blocks is the number of logarithms coprime to the order,
\* as 32768 is for 65535 = 3 * 5 * 17 * 257.
ASSUME EncoderAssumption ==
  /\ MAX_INPUT_BLOCKS = Cardinality({n \in 0 .. FIELD_LIMIT - 1 : gcd[<<FIELD_LIMIT, n>>] = 1})
  /\ MAX_RECOVERY_BLOCKS = FIELD_LIMIT
  /\ \A r \in Requests :
       /\ r.input_count \in Nat
       /\ r.first_exponent \in Nat /\ r.recovery_count \in Nat
       /\ r.first_exponent + r.recovery_count <= MAX_RECOVERY_BLOCKS

VARIABLES
  input_count, first_exponent, recovery_count,
  pc,          \* "tables", "idle", "bases", "ready" or "panic"; "multiply" once
               \* the caller uses the coefficients
  input_bases,
  logbase,
  recovery_exponents

request == <<input_count, first_exponent, recovery_count>>
rsVars == <<tables, request, pc, input_bases, logbase, recovery_exponents>>

RsInit ==
  /\ TablesInit
  /\ input_count = 0 /\ first_exponent = 0 /\ recovery_count = 0
  /\ pc = "tables"
  /\ input_bases = <<>> /\ logbase = 0 /\ recovery_exponents = <<>>

\* The first call of gf16_tables, in the process.
Tables ==
  /\ pc = "tables"
  /\ BuildTables
  /\ pc' = IF Built' THEN "idle" ELSE pc
  /\ UNCHANGED <<request, input_bases, logbase, recovery_exponents>>

\* RsEncoder::new is called.
NewEncoder(r) ==
  /\ pc = "idle"
  /\ input_count' = r.input_count
  /\ first_exponent' = r.first_exponent
  /\ recovery_count' = r.recovery_count
  /\ pc' = "bases"
  /\ UNCHANGED <<tables, input_bases, logbase, recovery_exponents>>

\* Mutant: every logarithm is taken.
MutTakeBase ==
  /\ pc = "bases" /\ Len(input_bases) < input_count /\ logbase < FIELD_LIMIT
  /\ input_bases' = Append(input_bases, antilog[logbase])
  /\ logbase' = logbase + 1
  /\ UNCHANGED <<tables, request, pc, recovery_exponents>>

TakeBase ==
  /\ pc = "bases" /\ Len(input_bases) < input_count /\ logbase < FIELD_LIMIT
  /\ gcd[<<FIELD_LIMIT, logbase>>] = 1
  /\ input_bases' = Append(input_bases, antilog[logbase])
  /\ logbase' = logbase + 1
  /\ UNCHANGED <<tables, request, pc, recovery_exponents>>

SkipBase ==
  /\ pc = "bases" /\ Len(input_bases) < input_count /\ logbase < FIELD_LIMIT
  /\ gcd[<<FIELD_LIMIT, logbase>>] # 1
  /\ logbase' = logbase + 1
  /\ UNCHANGED <<tables, request, pc, input_bases, recovery_exponents>>

Exhausted ==
  /\ pc = "bases" /\ Len(input_bases) < input_count
  /\ logbase >= FIELD_LIMIT
  /\ pc' = "panic"
  /\ UNCHANGED <<tables, request, input_bases, logbase, recovery_exponents>>

Exponents ==
  /\ pc = "bases" /\ Len(input_bases) = input_count
  /\ recovery_exponents' = [r \in 1 .. recovery_count |-> first_exponent + r - 1]
  /\ pc' = "ready"
  /\ UNCHANGED <<tables, request, input_bases, logbase>>

RsNext ==
  \/ Tables
  \/ \E r \in Requests : NewEncoder(r)
  \/ TakeBase \/ SkipBase \/ Exhausted \/ Exponents

\* Mutant: the exponent is that of the set, not of the row.
MutCoefficient(r, i) == gf_pow(input_bases[i], first_exponent)

coefficient(r, i) == gf_pow(input_bases[i], recovery_exponents[r])

\* What accumulate makes of one symbol each of the slices of data in a recovery
\* block that is 0 at first.
Accumulated(r, data) ==
  FoldFunction(Xor, {}, [i \in DOMAIN data |-> gf_mul(coefficient(r, i), data[i])])

-----------------------------------------------------------------------------
(* Properties                                                              *)

\* Whatever passes the limit on input blocks finds enough bases ("We'd already
\* have hit TooManyInputBlocks", reedsolomon.rs:136-137).  They are distinct, and
\* each has the full order, "so its powers stay distinct over the full exponent
\* range" (reedsolomon.rs:12-13).
BasesGenerate ==
  /\ pc = "panic" => input_count > MAX_INPUT_BLOCKS
  /\ pc = "ready" =>
      \A i \in 1 .. input_count :
        /\ \A j \in 1 .. i - 1 : input_bases[i] # input_bases[j]
        /\ Cardinality({gf_pow(input_bases[i], e) : e \in 0 .. FIELD_LIMIT - 1}) = FIELD_LIMIT

\* Any loss of n slices is repaired by any n recovery blocks in a row, those of a
\* volume that holds as many: no two contents of the lost slices have the same n
\* blocks, that is (accumulate is linear) no difference but 0 leaves them all 0.
VolumeRepairs ==
  pc = "ready" =>
    \A lost \in Losses :
      lost \subseteq 1 .. input_count =>
        LET n == Cardinality(lost)
        IN  \A r \in 1 .. recovery_count - n + 1, data \in [lost -> Elements] :
              (\A j \in 0 .. n - 1 : Accumulated(r + j, data) = {})
                => \A i \in lost : data[i] = {}
=============================================================================
