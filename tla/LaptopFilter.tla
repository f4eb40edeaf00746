----------------------------- MODULE LaptopFilter -----------------------------
(***************************************************************************)
(* Which laptops a search finds: isQualified and toBit                     *)
(* (service/laptop_store.go) on messages of proto/pc-specs.proto.  Prices, *)
(* cores and clock rates are compared as they are; memory is converted to  *)
(* a number of bits first, in a uint64, which wraps.                       *)
(***************************************************************************)
EXTENDS Naturals

Unit == {"BIT", "BYTE", "KILOBYTE", "MEGABYTE", "GIGABYTE", "TERABYTE"}

CONSTANTS Weight,  \* the bits of a unit: 2^0, 2^3, 2^13, 2^23, 2^33 and 2^43
          Word     \* 2^64

ASSUME WordAssumption == Word \in Nat \ {0}
ASSUME WeightAssumption == Weight \in [Unit -> Nat \ {0}]

\* A unit that is not set is "UNKNOWN".
Memory == [value : 0 .. Word - 1, unit : Unit \cup {"UNKNOWN"}]

\* How much memory it really is.
Size(memory) == IF memory.unit \in Unit THEN memory.value * Weight[memory.unit] ELSE 0

\* Mutant: a gigabyte is shifted like a megabyte.
toBitGiga(memory) ==
  LET unit == IF memory.unit = "GIGABYTE" THEN "MEGABYTE" ELSE memory.unit
  IN  IF unit \in Unit THEN (memory.value * Weight[unit]) % Word ELSE 0

\* A shift of a uint64 drops the bits that do not fit.
toBit(memory) == Size(memory) % Word

isQualified(filter, laptop) ==
  /\ laptop.priceUsd <= filter.maxPriceUsd
  /\ laptop.cpu.numberCores >= filter.minCpuCores
  /\ laptop.cpu.minGhz >= filter.minCpuGhz
  /\ toBit(laptop.ram) >= toBit(filter.minRam)

\* What the filter asks for, in numbers that do not wrap.
Wanted(filter, laptop) ==
  /\ laptop.priceUsd <= filter.maxPriceUsd
  /\ laptop.cpu.numberCores >= filter.minCpuCores
  /\ laptop.cpu.minGhz >= filter.minCpuGhz
  /\ Size(laptop.ram) >= Size(filter.minRam)

Fits(memory) == Size(memory) < Word

================================================================================
