---------------------------- MODULE MCClientProgram ----------------------------
(* An instance of ClientProgram for TLC: a unit of memory is twice the one *)
(* before, a word has 15 bits, and two laptops are rated.                  *)
EXTENDS ClientProgram, TLC

TwoLaptops == <<4, 5>>

Powers == [u \in Unit |-> CASE u = "BIT" -> 1 [] u = "BYTE" -> 2 [] u = "KILOBYTE" -> 4
             [] u = "MEGABYTE" -> 8 [] u = "GIGABYTE" -> 16 [] u = "TERABYTE" -> 32]

GPU == [brand |-> "AMD", name |-> "RX 590", minGhz |-> 10, maxGhz |-> 19,
        memory |-> [value |-> 6, unit |-> "GIGABYTE"]]
SSD == [driver |-> "SSD", memory |-> [value |-> 1024, unit |-> "GIGABYTE"]]
HDD == [driver |-> "HDD", memory |-> [value |-> 6, unit |-> "TERABYTE"]]
Screen == [sizeInch |-> 169, resolution |-> [width |-> 1920, height |-> 1080],
           panel |-> "OLED", multitouch |-> TRUE]

\* Exactly what the filter asks for.
Fair == [brand |-> "Dell", name |-> "XPS", gpus |-> <<GPU>>, storages |-> <<SSD, HDD>>,
         cpu |-> [brand |-> "AMD", name |-> "Ryzen 5 PRO 3500U", numberCores |-> 4,
                  numberThreads |-> 12, minGhz |-> 25, maxGhz |-> 25],
         ram |-> [value |-> 8, unit |-> "GIGABYTE"], screen |-> Screen,
         keyboard |-> [layout |-> "QWERTZ", backlit |-> FALSE],
         weightKg |-> 10, priceUsd |-> 3000, releaseYear |-> 2019]
Small == [Fair EXCEPT !.ram.value = 4]
Samples == {Fair, Small}

\* What others store need not come from NewLaptop: a memory that wraps to nothing
\* and one in another unit.
Others == [id \in {101, 102} |->
             IF id = 101 THEN [Fair EXCEPT !.ram = [value |-> 1024, unit |-> "TERABYTE"]]
             ELSE [Fair EXCEPT !.ram = [value |-> 8, unit |-> "MEGABYTE"]]]

================================================================================
