------------------------------ MODULE SampleData ------------------------------
(***************************************************************************)
(* The laptops that sample-data makes up for the client: each generator is *)
(* the set of what it may return.  Clock rates, weights and inches are     *)
(* counted in tenths.  A field drawn within the bounds of another one      *)
(* (threads, maximal clock rates, names) is a condition on both.           *)
(***************************************************************************)
EXTENDS Naturals

\* Both ends are possible.
randomInt(min, max) == min .. max

\* rand.Float64() is less than 1.
randomFloat(min, max) == min .. (max - 1)

randomBool == BOOLEAN

CPUBrand == {"Intel", "AMD"}
CPUName == [Intel |-> {"Xeon E-2286M", "Core i9-9980HK", "Core i7-9750H",
                       "Core i5-9400F", "Core i3-1005G1"},
            AMD   |-> {"Ryzen 7 PRO 2700U", "Ryzen 5 PRO 3500U", "Ryzen 3 PRO 3200GE"}]
GPUBrand == {"Nvidia", "AMD"}
GPUName == [Nvidia |-> {"RTX 2060", "RTX 2070", "GTX 1660-Ti", "GTX 1070"},
            AMD    |-> {"RX 590", "RX 580", "RX 5700-XT", "RX Vega-56"}]
LaptopBrand == {"Apple", "Dell", "Lenovo"}
LaptopName == [Apple  |-> {"Macbook Air", "Macbook Pro"},
               Dell   |-> {"Latitude", "Vostro", "XPS", "Alienware"},
               Lenovo |-> {"Thinkpad X1", "Thinkpad P1", "Thinkpad P53"}]

NewCPU == {cpu \in [brand         : CPUBrand,
                    name          : UNION {CPUName[b] : b \in CPUBrand},
                    numberCores   : randomInt(2, 8),
                    numberThreads : randomInt(2, 12),
                    minGhz        : randomFloat(20, 35),
                    maxGhz        : randomFloat(20, 50)] :
             /\ cpu.name \in CPUName[cpu.brand]
             /\ cpu.numberThreads \in randomInt(cpu.numberCores, 12)
             /\ cpu.maxGhz \in randomFloat(cpu.minGhz, 50)}

Gigabytes(min, max) == [value : randomInt(min, max), unit : {"GIGABYTE"}]
Terabytes(min, max) == [value : randomInt(min, max), unit : {"TERABYTE"}]

NewGPU == {gpu \in [brand  : GPUBrand,
                    name   : UNION {GPUName[b] : b \in GPUBrand},
                    minGhz : randomFloat(10, 15),
                    maxGhz : randomFloat(10, 20),
                    memory : Gigabytes(2, 6)] :
             /\ gpu.name \in GPUName[gpu.brand]
             /\ gpu.maxGhz \in randomFloat(gpu.minGhz, 20)}

NewRAM == Gigabytes(4, 64)
NewSSD == [driver : {"SSD"}, memory : Gigabytes(128, 1024)]
NewHDD == [driver : {"HDD"}, memory : Terabytes(1, 6)]

\* The width follows from the height, in whole pixels.
randomScreenResolution == {[width |-> (h * 16) \div 9, height |-> h] : h \in randomInt(1080, 4320)}
randomScreenPanel == {"IPS", "OLED"}

NewScreen == [sizeInch   : randomFloat(130, 170),
              resolution : randomScreenResolution,
              panel      : randomScreenPanel,
              multitouch : randomBool]

randomKeyboardLayout == {"QWERTY", "QWERTZ", "AZERTY"}
NewKeyboard == [layout : randomKeyboardLayout, backlit : randomBool]

\* Without its id, which is a new UUID, and the time of its making.
NewLaptop == {laptop \in [brand       : LaptopBrand,
                          name        : UNION {LaptopName[b] : b \in LaptopBrand},
                          cpu         : NewCPU,
                          ram         : NewRAM,
                          gpus        : [{1} -> NewGPU],
                          storages    : NewSSD \X NewHDD,
                          screen      : NewScreen,
                          keyboard    : NewKeyboard,
                          weightKg    : randomFloat(10, 30),
                          priceUsd    : randomFloat(1500, 3500),
                          releaseYear : randomInt(2015, 2019)] :
                laptop.name \in LaptopName[laptop.brand]}

================================================================================
