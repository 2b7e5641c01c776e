---------------------------- MODULE DriverProofs ----------------------------
(***************************************************************************)
(* Proofs about the device manager and two of its drivers, in three parts: *)
(* the device manager, the clock driver and the PS/2 driver.  No part uses *)
(* another.                                                                *)
(***************************************************************************)
EXTENDS DeviceManager, Clock, Ps2Input,
        SequenceTheorems, NaturalsInduction, WellFoundedInduction, TLAPS

(***************************************************************************)
(* Proofs about the device manager, for any machine, any set of devices    *)
(* and any initialisations that fail.                                      *)
(*                                                                         *)
(* DevOK says what holds of every entry of the table on its own, TableOK   *)
(* what holds of their order.  NumberInv is about the numbers of the NVMe  *)
(* devices, which are given in the order of the table.                     *)
(***************************************************************************)
Names ==
  {<<>>, <<"rtc">>, <<"serial">>, <<"ps2_keyboard">>, <<"ps2_mouse">>, <<"framebuffer">>,
   <<"fb0">>, <<"nvme?">>} \cup {<<"nvme", n>> : n \in Nat}

(* What os_data points to: the description of a function of PCI, the line  *)
(* of a PS/2 device.                                                       *)
OsData == PciFunction \cup (0 .. 255) \cup {NULL}

DeviceType ==
  [name : Names, bus : {"platform", "ps2", "pci"},
   class : {"misc", "char", "display", "input", "block", "net"}, irq : 0 .. 255,
   os_data : OsData, drv : Drivers \cup {NULL}, initialized : BOOLEAN,
   driver_data : Nat]

(* Probe, on machine h.                                                    *)
ProbeOK(h, d) ==
  /\ d.drv = "serial" => h.serial
  /\ d.drv = "nvme" => d.os_data.nvme

(* A device that is bound to a driver is of its kind and was found.        *)
Bound(h, d) ==
  d.drv # NULL => /\ Driver[d.drv].bus = d.bus /\ Driver[d.drv].class = d.class
                  /\ ProbeOK(h, d)
                  /\ NeedsCopy(d) => d.os_data # NULL

(* Names that kmain looks for.                                             *)
Named(d) ==
  /\ d.name = <<"serial">> <=> d.bus = "platform" /\ d.class = "char"
  /\ d.name = <<"fb0">> <=> d.initialized /\ d.drv = "framebuffer"
  /\ d.name = <<"nvme", 0>> => d.initialized /\ d.drv = "nvme"

(* Interrupt lines that are fixed.                                         *)
Wired(d) ==
  /\ d.bus = "platform" => d.irq \in {0, IRQ_COM1}
  /\ d.bus = "ps2" => d.irq \in {IRQ_KEYBOARD, IRQ_MOUSE}

DevOK(h, d) ==
  /\ d \in DeviceType
  /\ Bound(h, d)
  /\ d.initialized => d.drv # NULL
  /\ d.driver_data = IF d.initialized /\ KeepsData(d) THEN 1 ELSE 0
  /\ Named(d)
  /\ Wired(d)

TableOK(h, devs) ==
  /\ devs \in Seq(DeviceType) /\ Len(devs) <= MAX_DEVICES
  /\ \A k \in 1 .. Len(devs) : DevOK(h, devs[k])
  /\ \A j, k \in 1 .. Len(devs) : j < k /\ devs[k].bus = "ps2" => devs[j].bus # "pci"
  /\ \A j, k \in 1 .. Len(devs) :
       devs[j].name = <<"serial">> /\ devs[k].name = <<"serial">> => j = k

DriversOK(ds) ==
  /\ ds \in Seq(Drivers) /\ Len(ds) <= MAX_DEVICES
  /\ \A j, k \in 1 .. Len(ds) : ds[j] = ds[k] => j = k

-----------------------------------------------------------------------------
(* The first of a set of places.                                           *)

(* A set of natural numbers that is not empty has a least member.          *)
LEMMA LeastPlace ==
  ASSUME NEW T \in SUBSET Nat, T # {}
  PROVE  \E m \in T : \A x \in T : m <= x
<1> DEFINE R == OpToRel(<, Nat)
<1>1. PICK m \in T : \A x \in T : ~(<<x, m>> \in R)
  <2>1. IsWellFoundedOn(R, Nat)
    BY NatLessThanWellFounded
  <2> HIDE DEF R
  <2> QED BY <2>1, WFMin
<1>2. \A x \in T : ~(x < m)
  BY <1>1 DEF OpToRel
<1> QED BY <1>2

(* First gives the least of the places, NULL only if there is none.        *)
LEMMA FirstMeans ==
  ASSUME NEW T \in SUBSET Nat
  PROVE  /\ T = {} => First(T) = NULL
         /\ T # {} => First(T) \in T /\ \A x \in T : First(T) <= x
<1>1. CASE T = {}
  BY <1>1 DEF First
<1>2. CASE T # {}
  <2>1. PICK m \in T : \A x \in T : m <= x
    BY <1>2, LeastPlace
  <2> QED BY <1>2, <2>1 DEF First
<1> QED BY <1>1, <1>2

LEMMA FirstIs ==
  ASSUME NEW T \in SUBSET Nat, NEW m \in T, \A x \in T : m <= x
  PROVE  First(T) = m
<1>1. T # {}
  OBVIOUS
<1>2. First(T) \in T /\ First(T) <= m
  BY <1>1, FirstMeans
<1>3. First(T) \in Nat /\ m \in Nat /\ m <= First(T)
  BY <1>2
<1> QED BY <1>2, <1>3

(* NULL is no place of a table.                                            *)
LEMMA FirstFinds ==
  ASSUME NEW T \in SUBSET Nat
  PROVE  First(T) # NULL <=> T # {}
BY FirstMeans, DeviceAssumption

(* The names are different.                                                *)
LEMMA NamesDiffer ==
  /\ \A n \in Nat : <<"nvme", n>> \in Names
  /\ \A a, b \in STRING : <<a>> = <<b>> => a = b
  /\ \A a, b \in STRING : \A n \in Nat : <<a>> # <<b, n>>
  /\ \A a, b \in STRING : \A m, n \in Nat : <<a, m>> = <<b, n>> => m = n
  /\ \A a \in STRING : <<>> # <<a>>
  /\ \A a \in STRING : \A n \in Nat : <<>> # <<a, n>>
<1>1. \A n \in Nat : <<"nvme", n>> \in Names
  BY DEF Names
<1>2. \A a, b \in STRING : <<a>> = <<b>> => a = b
  OBVIOUS
<1>3. \A a, b \in STRING : \A n \in Nat : <<a>> # <<b, n>>
  <2> SUFFICES ASSUME NEW a \in STRING, NEW b \in STRING, NEW n \in Nat, <<a>> = <<b, n>>
               PROVE  FALSE
    OBVIOUS
  <2>1. Len(<<a>>) = 1 /\ Len(<<b, n>>) = 2
    OBVIOUS
  <2> QED BY <2>1
<1>4. \A a, b \in STRING : \A m, n \in Nat : <<a, m>> = <<b, n>> => m = n
  OBVIOUS
<1>5. \A a \in STRING : <<>> # <<a>>
  OBVIOUS
<1>6. \A a \in STRING : \A n \in Nat : <<>> # <<a, n>>
  OBVIOUS
<1> QED BY <1>1, <1>2, <1>3, <1>4, <1>5, <1>6

-----------------------------------------------------------------------------
(* Entries of the table.                                                   *)

(* The names of the entries that are not initialised.                      *)
LEMMA NameFacts ==
  /\ <<>> \in Names /\ <<"rtc">> \in Names /\ <<"serial">> \in Names /\ <<"ps2_keyboard">> \in Names
  /\ <<"ps2_mouse">> \in Names /\ <<"framebuffer">> \in Names /\ <<"fb0">> \in Names
  /\ <<"nvme?">> \in Names
BY DEF Names

LEMMA DriverFacts ==
  /\ Drivers = {"rtc", "serial", "framebuffer", "ps2", "nvme"}
  /\ Driver["rtc"].bus = "platform" /\ Driver["rtc"].class = "misc"
  /\ Driver["serial"].bus = "platform" /\ Driver["serial"].class = "char"
  /\ Driver["framebuffer"].bus = "platform" /\ Driver["framebuffer"].class = "display"
  /\ Driver["ps2"].bus = "ps2" /\ Driver["ps2"].class = "input" /\ Driver["ps2"].irq_handler
  /\ Driver["nvme"].bus = "pci" /\ Driver["nvme"].class = "block"
BY DEF Drivers, Driver

(* A device as it is found satisfies DevOK.                                *)
Discovered(name, bus, class, irq, info) ==
  /\ name \in Names /\ bus \in {"platform", "ps2", "pci"}
  /\ class \in {"misc", "char", "display", "input", "block", "net"}
  /\ irq \in 0 .. 255 /\ info \in OsData
  /\ name = <<"serial">> <=> bus = "platform" /\ class = "char"
  /\ name # <<"fb0">> /\ name # <<"nvme", 0>>
  /\ bus = "platform" => irq = 0
  /\ bus = "ps2" => irq \in {IRQ_KEYBOARD, IRQ_MOUSE}

LEMMA FoundOK ==
  ASSUME NEW h, NEW name, NEW bus, NEW class, NEW irq, NEW info,
         Discovered(name, bus, class, irq, info)
  PROVE  DevOK(h, Device(name, bus, class, irq, info))
<1> DEFINE d == Device(name, bus, class, irq, info)
<1>1. d \in DeviceType
  BY DeviceAssumption DEF DeviceType, Device, Discovered
<1>2. /\ d.name = name /\ d.bus = bus /\ d.class = class /\ d.irq = irq /\ d.drv = NULL
      /\ d.initialized = FALSE /\ d.driver_data = 0
  BY DEF Device
<1> HIDE DEF d
<1>3. Bound(h, d)
  BY <1>2 DEF Bound
<1>4. Named(d)
  BY <1>2 DEF Named, Discovered
<1>5. Wired(d)
  BY <1>2 DEF Wired, Discovered
<1> QED BY <1>1, <1>2, <1>3, <1>4, <1>5 DEF DevOK, d

(* What detection registers.                                               *)
LEMMA DetectedOK ==
  ASSUME NEW h
  PROVE  /\ DevOK(h, Device(<<"rtc">>, "platform", "misc", 0, NULL))
         /\ DevOK(h, Device(<<"serial">>, "platform", "char", 0, NULL))
         /\ DevOK(h, Framebuffer)
         /\ \A info \in Copied(IRQ_KEYBOARD) : DevOK(h, Ps2Device(IRQ_KEYBOARD, info))
         /\ \A info \in Copied(IRQ_MOUSE) : DevOK(h, Ps2Device(IRQ_MOUSE, info))
         /\ \A fn \in PciFunction : \A info \in Copied(fn) : DevOK(h, PciDevice(fn, info))
<1>0. NULL \in OsData /\ 0 \in 0 .. 255 /\ \A x \in 0 .. 255 : x \in OsData
  BY DEF OsData
<1>n. /\ <<"rtc">> # <<"serial">> /\ <<"rtc">> # <<"fb0">> /\ <<"rtc">> # <<"nvme", 0>>
      /\ <<"serial">> # <<"fb0">> /\ <<"serial">> # <<"nvme", 0>>
      /\ <<"framebuffer">> # <<"serial">> /\ <<"framebuffer">> # <<"fb0">>
      /\ <<"framebuffer">> # <<"nvme", 0>>
      /\ <<"ps2_keyboard">> # <<"serial">> /\ <<"ps2_keyboard">> # <<"fb0">>
      /\ <<"ps2_keyboard">> # <<"nvme", 0>>
      /\ <<"ps2_mouse">> # <<"serial">> /\ <<"ps2_mouse">> # <<"fb0">>
      /\ <<"ps2_mouse">> # <<"nvme", 0>>
      /\ <<>> # <<"serial">> /\ <<>> # <<"fb0">> /\ <<>> # <<"nvme", 0>>
  BY NamesDiffer
<1>1. DevOK(h, Device(<<"rtc">>, "platform", "misc", 0, NULL))
  <2>1. Discovered(<<"rtc">>, "platform", "misc", 0, NULL)
    BY <1>0, <1>n, NameFacts DEF Discovered
  <2> QED BY <2>1, FoundOK
<1>2. DevOK(h, Device(<<"serial">>, "platform", "char", 0, NULL))
  <2>1. Discovered(<<"serial">>, "platform", "char", 0, NULL)
    BY <1>0, <1>n, NameFacts DEF Discovered
  <2> QED BY <2>1, FoundOK
<1>3. DevOK(h, Framebuffer)
  <2>1. Discovered(<<"framebuffer">>, "platform", "display", 0, NULL)
    BY <1>0, <1>n, NameFacts DEF Discovered
  <2> QED BY <2>1, FoundOK DEF Framebuffer
<1>4. ASSUME NEW info \in Copied(IRQ_KEYBOARD)
      PROVE  DevOK(h, Ps2Device(IRQ_KEYBOARD, info))
  <2>1. Ps2Device(IRQ_KEYBOARD, info) = Device(<<"ps2_keyboard">>, "ps2", "input", IRQ_KEYBOARD, info)
    BY DEF Ps2Device
  <2>2. IRQ_KEYBOARD \in 0 .. 255
    BY DEF IRQ_KEYBOARD
  <2>3. Discovered(<<"ps2_keyboard">>, "ps2", "input", IRQ_KEYBOARD, info)
    BY <1>0, <1>n, <2>2, NameFacts DEF Discovered, Copied
  <2> QED BY <2>1, <2>3, FoundOK
<1>5. ASSUME NEW info \in Copied(IRQ_MOUSE)
      PROVE  DevOK(h, Ps2Device(IRQ_MOUSE, info))
  <2>1. Ps2Device(IRQ_MOUSE, info) = Device(<<"ps2_mouse">>, "ps2", "input", IRQ_MOUSE, info)
    BY DEF Ps2Device, IRQ_MOUSE, IRQ_KEYBOARD
  <2>2. IRQ_MOUSE \in 0 .. 255
    BY DEF IRQ_MOUSE
  <2>3. Discovered(<<"ps2_mouse">>, "ps2", "input", IRQ_MOUSE, info)
    BY <1>0, <1>n, <2>2, NameFacts DEF Discovered, Copied
  <2> QED BY <2>1, <2>3, FoundOK
<1>6. ASSUME NEW fn \in PciFunction, NEW info \in Copied(fn)
      PROVE  DevOK(h, PciDevice(fn, info))
  <2>1. fn.irq \in 0 .. 255
    BY DEF PciFunction
  <2>2. PciClass(fn.code) \in {"misc", "char", "display", "input", "block", "net"}
    BY DEF PciClass
  <2>3. info \in OsData
    BY DEF OsData, Copied
  <2>4. Discovered(<<>>, "pci", PciClass(fn.code), fn.irq, info)
    BY <1>n, <2>1, <2>2, <2>3, NameFacts DEF Discovered
  <2> QED BY <2>4, FoundOK DEF PciDevice
<1> QED BY <1>1, <1>2, <1>3, <1>4, <1>5, <1>6

(* Shape of what is found.                                                 *)
LEMMA DetectedShape ==
  /\ Framebuffer.name # <<"serial">> /\ Framebuffer.bus = "platform" /\ ~Framebuffer.initialized
  /\ \A info : \A irq \in {IRQ_KEYBOARD, IRQ_MOUSE} :
       /\ Ps2Device(irq, info).name # <<"serial">> /\ Ps2Device(irq, info).bus = "ps2"
       /\ ~Ps2Device(irq, info).initialized
  /\ \A fn, info : PciDevice(fn, info).name # <<"serial">> /\ PciDevice(fn, info).bus = "pci"
                   /\ ~PciDevice(fn, info).initialized
<1>1. /\ <<"framebuffer">> # <<"serial">> /\ <<"ps2_keyboard">> # <<"serial">>
      /\ <<"ps2_mouse">> # <<"serial">> /\ <<>> # <<"serial">>
  BY NamesDiffer
<1> QED BY <1>1 DEF Framebuffer, Ps2Device, PciDevice, Device

-----------------------------------------------------------------------------
(* The table while devices are added.                                      *)

NoPci(devs) == \A k \in 1 .. Len(devs) : devs[k].bus # "pci"

(* An NVMe device that came up.                                            *)
Up(d) == d.initialized /\ d.drv = "nvme"
NoneUp(devs) == \A k \in 1 .. Len(devs) : ~Up(devs[k])

LEMMA RegisterOK ==
  ASSUME NEW h, NEW devs, TableOK(h, devs), NEW d, DevOK(h, d), d.name # <<"serial">>,
         ~d.initialized, d.bus = "ps2" => NoPci(devs)
  PROVE  /\ TableOK(h, Register(devs, d))
         /\ NoPci(devs) /\ d.bus # "pci" => NoPci(Register(devs, d))
         /\ NoneUp(devs) => NoneUp(Register(devs, d))
<1>0. d \in DeviceType /\ devs \in Seq(DeviceType) /\ Len(devs) \in Nat /\ MAX_DEVICES \in Nat
  BY DeviceAssumption DEF DevOK, TableOK
<1>1. CASE Len(devs) >= MAX_DEVICES
  BY <1>1 DEF Register
<1>2. CASE ~(Len(devs) >= MAX_DEVICES)
  <2> DEFINE new == Append(devs, d)
  <2>1. Register(devs, d) = new
    BY <1>2 DEF Register
  <2>2. /\ new \in Seq(DeviceType) /\ Len(new) = Len(devs) + 1
        /\ \A k \in 1 .. Len(new) : new[k] = IF k <= Len(devs) THEN devs[k] ELSE d
    BY <1>0
  <2> HIDE DEF new
  <2>3. \A k \in 1 .. Len(new) :
          (k \in 1 .. Len(devs) /\ new[k] = devs[k]) \/ (k = Len(new) /\ new[k] = d)
    BY <1>0, <2>2
  <2>4. Len(new) <= MAX_DEVICES
    BY <1>0, <1>2, <2>2
  <2>5. \A k \in 1 .. Len(new) : DevOK(h, new[k])
    BY <2>3 DEF TableOK
  <2>6. ASSUME NEW j \in 1 .. Len(new), NEW k \in 1 .. Len(new), j < k, new[k].bus = "ps2"
        PROVE  new[j].bus # "pci"
    <3>1. j \in 1 .. Len(devs) /\ new[j] = devs[j]
      BY <1>0, <2>2, <2>6
    <3>2. CASE k \in 1 .. Len(devs) /\ new[k] = devs[k]
      BY <2>6, <3>1, <3>2 DEF TableOK
    <3>3. CASE new[k] = d
      BY <2>6, <3>1, <3>3 DEF NoPci
    <3> QED BY <2>3, <3>2, <3>3
  <2>7. ASSUME NEW j \in 1 .. Len(new), NEW k \in 1 .. Len(new),
               new[j].name = <<"serial">>, new[k].name = <<"serial">>
        PROVE  j = k
    <3>1. j \in 1 .. Len(devs) /\ new[j] = devs[j] /\ k \in 1 .. Len(devs) /\ new[k] = devs[k]
      BY <2>3, <2>7
    <3> QED BY <2>7, <3>1 DEF TableOK
  <2>8. TableOK(h, new)
    BY <2>2, <2>4, <2>5, <2>6, <2>7 DEF TableOK
  <2>9. NoPci(devs) /\ d.bus # "pci" => NoPci(new)
    BY <2>3 DEF NoPci
  <2>10. NoneUp(devs) => NoneUp(new)
    BY <2>3 DEF NoneUp, Up
  <2> QED BY <2>1, <2>8, <2>9, <2>10
<1> QED BY <1>1, <1>2

(* An entry of the table is replaced by one with the same bus and the same *)
(* claim to the name serial.                                               *)
LEMMA ReplaceOK ==
  ASSUME NEW h, NEW devs, TableOK(h, devs), NEW p \in 1 .. Len(devs), NEW d, DevOK(h, d),
         d.bus = devs[p].bus, d.name = <<"serial">> => devs[p].name = <<"serial">>
  PROVE  /\ TableOK(h, [devs EXCEPT ![p] = d])
         /\ Len([devs EXCEPT ![p] = d]) = Len(devs)
         /\ \A k \in 1 .. Len(devs) : [devs EXCEPT ![p] = d][k] = IF k = p THEN d ELSE devs[k]
<1>0. d \in DeviceType /\ devs \in Seq(DeviceType)
  BY DEF DevOK, TableOK
<1> DEFINE new == [devs EXCEPT ![p] = d]
<1>1. /\ new \in Seq(DeviceType) /\ Len(new) = Len(devs)
      /\ \A k \in 1 .. Len(devs) : new[k] = IF k = p THEN d ELSE devs[k]
  BY <1>0
<1> HIDE DEF new
<1>2. \A k \in 1 .. Len(devs) : DevOK(h, new[k])
  BY <1>1 DEF TableOK
<1>3. \A k \in 1 .. Len(devs) : new[k].bus = devs[k].bus
                                /\ (new[k].name = <<"serial">> => devs[k].name = <<"serial">>)
  BY <1>1
<1>4. \A j, k \in 1 .. Len(devs) : j < k /\ new[k].bus = "ps2" => new[j].bus # "pci"
  BY <1>3 DEF TableOK
<1>5. \A j, k \in 1 .. Len(devs) : new[j].name = <<"serial">> /\ new[k].name = <<"serial">> => j = k
  BY <1>3 DEF TableOK
<1>6. TableOK(h, new)
  BY <1>1, <1>2, <1>4, <1>5 DEF TableOK
<1> QED BY <1>1, <1>6 DEF new

-----------------------------------------------------------------------------
(* Binding, probing and initialising an entry.                             *)

(* A driver is bound to a device of its own bus and class.                 *)
LEMMA BindMeans ==
  ASSUME DriversOK(drivers), NEW d, d \in DeviceType
  PROVE  \/ Bind(d) = d
         \/ /\ d.drv = NULL
            /\ \E x \in Drivers : /\ Bind(d) = [d EXCEPT !.drv = x]
                                  /\ Driver[x].bus = d.bus /\ Driver[x].class = d.class
<1> DEFINE T == {k \in DOMAIN drivers : /\ Driver[drivers[k]].bus = d.bus
                                        /\ Driver[drivers[k]].class = d.class}
<1>1. Matching(d) = First(T)
  BY DEF Matching
<1>2. T \in SUBSET Nat
  BY DEF DriversOK
<1>3. CASE d.drv # NULL \/ Matching(d) = NULL
  BY <1>3 DEF Bind
<1>4. CASE d.drv = NULL /\ Matching(d) # NULL
  <2>1. First(T) \in T
    <3> HIDE DEF T
    <3> QED BY <1>1, <1>2, <1>4, FirstMeans
  <2>2. /\ drivers[Matching(d)] \in Drivers
        /\ Driver[drivers[Matching(d)]].bus = d.bus /\ Driver[drivers[Matching(d)]].class = d.class
    <3>1. Matching(d) \in T
      BY <1>1, <2>1
    <3>2. /\ Matching(d) \in DOMAIN drivers
          /\ Driver[drivers[Matching(d)]].bus = d.bus /\ Driver[drivers[Matching(d)]].class = d.class
      BY <3>1
    <3>3. drivers \in Seq(Drivers)
      BY DEF DriversOK
    <3> QED BY <3>2, <3>3
  <2> QED BY <1>4, <2>2 DEF Bind
<1> QED BY <1>3, <1>4

(* What Probe says is what Bound asks for.                                 *)
LEMMA ProbeMeans ==
  ASSUME NEW d, d.drv \in Drivers, hw \in Machine
  PROVE  Probe(d) <=> ProbeOK(hw, d)
<1>1. hw.serial \in BOOLEAN
  BY DEF Machine
<1> QED BY <1>1, DriverFacts DEF Probe, ProbeOK

(* Probing leaves an entry as it is but for its driver.                    *)
LEMMA ProbedOK ==
  ASSUME DriversOK(drivers), hw \in Machine, NEW d, DevOK(hw, d), ~ProbeFaults(d)
  PROVE  /\ DevOK(hw, Probed(d))
         /\ Probed(d).bus = d.bus /\ Probed(d).name = d.name
         /\ Probed(d).initialized = d.initialized
         /\ d.initialized => Probed(d) = d
<1>0. d \in DeviceType /\ d.initialized \in BOOLEAN
  BY DEF DevOK, DeviceType
<1>1. CASE d.initialized
  BY <1>1 DEF Probed
<1>2. CASE ~d.initialized
  <2>1. ASSUME NEW x \in Drivers \cup {NULL}, Bound(hw, [d EXCEPT !.drv = x]),
               Probed(d) = [d EXCEPT !.drv = x]
        PROVE  /\ DevOK(hw, Probed(d)) /\ Probed(d).bus = d.bus /\ Probed(d).name = d.name
               /\ Probed(d).initialized = d.initialized
    <3> DEFINE n == [d EXCEPT !.drv = x]
    <3>1. n \in DeviceType
      BY <1>0 DEF DeviceType
    <3>2. /\ n.bus = d.bus /\ n.name = d.name /\ n.initialized = d.initialized
          /\ n.irq = d.irq /\ n.class = d.class /\ n.driver_data = d.driver_data
      BY <1>0 DEF DeviceType
    <3> HIDE DEF n
    <3>3. Named(n) /\ Wired(n)
      BY <1>2, <3>2 DEF DevOK, Named, Wired
    <3>4. DevOK(hw, n)
      BY <1>2, <2>1, <3>1, <3>2, <3>3 DEF DevOK, n
    <3> QED BY <2>1, <3>2, <3>4 DEF n
  <2>2. CASE Bind(d).drv # NULL /\ ~Probe(Bind(d))
    <3>1. Probed(d) = [d EXCEPT !.drv = NULL]
      BY <1>2, <2>2 DEF Probed
    <3>2. [d EXCEPT !.drv = NULL].drv = NULL
      BY <1>0 DEF DeviceType
    <3>3. Bound(hw, [d EXCEPT !.drv = NULL])
      BY <3>2 DEF Bound
    <3> QED BY <1>2, <2>1, <3>1, <3>3
  <2>3. CASE ~(Bind(d).drv # NULL /\ ~Probe(Bind(d)))
    <3>1. Probed(d) = Bind(d)
      BY <1>2, <2>3 DEF Probed
    <3>2. CASE Bind(d) = d
      BY <1>2, <3>1, <3>2
    <3>3. CASE Bind(d) # d
      <4>1. PICK x \in Drivers : /\ Bind(d) = [d EXCEPT !.drv = x]
                                 /\ Driver[x].bus = d.bus /\ Driver[x].class = d.class
        BY <1>0, <3>3, BindMeans
      <4> DEFINE n == [d EXCEPT !.drv = x]
      <4>2. n.drv = x /\ n.bus = d.bus /\ n.class = d.class /\ n.os_data = d.os_data
        BY <1>0 DEF DeviceType
      <4> HIDE DEF n
      <4>3. x # NULL
        BY DeviceAssumption
      <4>4. Probe(n)
        BY <2>3, <4>1, <4>2, <4>3 DEF n
      <4>5. ProbeOK(hw, n)
        BY <4>2, <4>4, ProbeMeans
      <4>6. NeedsCopy(n) => n.os_data # NULL
        BY <1>2, <4>1, <4>2 DEF ProbeFaults, n
      <4>7. Bound(hw, n)
        BY <4>1, <4>2, <4>5, <4>6 DEF Bound
      <4> QED BY <1>2, <2>1, <3>1, <4>1, <4>7 DEF n
    <3> QED BY <3>2, <3>3
  <2> QED BY <2>2, <2>3
<1> QED BY <1>0, <1>1, <1>2

(* A successful initialisation.                                            *)
LEMMA ReadyOK ==
  ASSUME g_nvme_device_count \in Nat, NEW d, DevOK(hw, d), ~Skip(d), NEW name \in NewNames(d)
  PROVE  /\ DevOK(hw, Ready(d, name))
         /\ Ready(d, name).bus = d.bus /\ Ready(d, name).drv = d.drv /\ Ready(d, name).name = name
         /\ Ready(d, name).initialized
         /\ name = <<"serial">> => d.name = <<"serial">>
         /\ d.drv = "ps2" => d.bus = "ps2" /\ Ready(d, name).irq = d.irq
<1>0. /\ d \in DeviceType /\ ~d.initialized /\ d.drv # NULL /\ d.drv \in Drivers
      /\ Driver[d.drv].bus = d.bus /\ Driver[d.drv].class = d.class /\ ProbeOK(hw, d)
      /\ NeedsCopy(d) => d.os_data # NULL
      /\ d.driver_data = 0 /\ d.name \in Names /\ d.irq \in 0 .. 255
  BY DEF DevOK, DeviceType, Skip, Bound
<1>n. /\ <<"fb0">> # <<"serial">> /\ <<"nvme?">> # <<"serial">> /\ <<"nvme?">> # <<"fb0">>
      /\ <<"fb0">> # <<"nvme", 0>> /\ <<"serial">> # <<"nvme", 0>>
      /\ \A n \in Nat : <<"nvme", n>> # <<"serial">> /\ <<"nvme", n>> # <<"fb0">>
  BY NamesDiffer
<1>1. \/ d.drv = "framebuffer" /\ name = <<"fb0">>
      \/ d.drv = "nvme" /\ name \in {<<"nvme", g_nvme_device_count>>, <<"nvme?">>}
      \/ d.drv \notin {"framebuffer", "nvme"} /\ name = d.name
  BY DEF NewNames
<1>2. name \in Names
  BY <1>0, <1>1, NameFacts, NamesDiffer
<1> DEFINE n == Ready(d, name)
<1>3. /\ n.initialized = TRUE /\ n.name = name /\ n.bus = d.bus
      /\ n.driver_data = IF KeepsData(d) THEN 1 ELSE 0
      /\ n.class = d.class /\ n.drv = d.drv /\ n.os_data = d.os_data
      /\ n.irq = IF d.drv = "serial" THEN IRQ_COM1 ELSE d.irq
  BY <1>0 DEF Ready, DeviceType
<1>4. n \in DeviceType
  <2>1. (IF d.drv = "serial" THEN IRQ_COM1 ELSE d.irq) \in 0 .. 255
        /\ (IF KeepsData(d) THEN d.driver_data + 1 ELSE d.driver_data) \in Nat
    BY <1>0 DEF IRQ_COM1
  <2>2. n = [d EXCEPT !.initialized = TRUE, !.name = name,
                      !.driver_data = IF KeepsData(d) THEN d.driver_data + 1 ELSE d.driver_data,
                      !.irq = IF d.drv = "serial" THEN IRQ_COM1 ELSE d.irq]
    BY <1>0 DEF Ready, DeviceType
  <2>3. \A a \in 0 .. 255, b \in Nat :
          [d EXCEPT !.initialized = TRUE, !.name = name, !.driver_data = b, !.irq = a] \in DeviceType
    <3> SUFFICES ASSUME NEW a \in 0 .. 255, NEW b \in Nat
                 PROVE  [d EXCEPT !.initialized = TRUE, !.name = name, !.driver_data = b, !.irq = a]
                        \in DeviceType
      OBVIOUS
    <3>0. \A v \in BOOLEAN : [d EXCEPT !.initialized = v] \in DeviceType
      BY <1>0 DEF DeviceType
    <3>1. [d EXCEPT !.initialized = TRUE] \in DeviceType
      BY <3>0
    <3>2. \A e \in DeviceType : [e EXCEPT !.driver_data = b] \in DeviceType
      BY DEF DeviceType
    <3>3. \A e \in DeviceType : [e EXCEPT !.name = name] \in DeviceType
      BY <1>2 DEF DeviceType
    <3>4. \A e \in DeviceType : [e EXCEPT !.irq = a] \in DeviceType
      BY DEF DeviceType
    <3> QED BY <3>1, <3>2, <3>3, <3>4
  <2> HIDE DEF n
  <2> QED BY <2>1, <2>2, <2>3
<1> HIDE DEF n
<1>5. Named(d)
  BY DEF DevOK
<1>6. (d.name = <<"serial">> <=> d.bus = "platform" /\ d.class = "char") /\ d.name # <<"fb0">>
      /\ d.name # <<"nvme", 0>>
  BY <1>0, <1>5 DEF Named
<1>10. Named(n) /\ (name = <<"serial">> => d.name = <<"serial">>)
  <2>1. CASE d.drv = "framebuffer" /\ name = <<"fb0">>
    BY <1>0, <1>3, <1>n, <2>1, DriverFacts DEF Named
  <2>2. CASE d.drv = "nvme" /\ name \in {<<"nvme", g_nvme_device_count>>, <<"nvme?">>}
    <3>1. name # <<"serial">> /\ name # <<"fb0">>
      BY <1>n, <2>2
    <3> QED BY <1>0, <1>3, <2>2, <3>1, DriverFacts DEF Named
  <2>3. CASE d.drv \notin {"framebuffer", "nvme"} /\ name = d.name
    BY <1>3, <1>6, <2>3 DEF Named
  <2> QED BY <1>1, <2>1, <2>2, <2>3
<1>11. Wired(n)
  BY <1>0, <1>3, DriverFacts DEF DevOK, Wired
<1>12. Bound(hw, n)
  BY <1>0, <1>3 DEF Bound, ProbeOK, NeedsCopy
<1>13. DevOK(hw, n)
  BY <1>0, <1>3, <1>4, <1>10, <1>11, <1>12 DEF DevOK, KeepsData
<1>14. d.drv = "ps2" => d.bus = "ps2" /\ n.irq = d.irq
  BY <1>0, <1>3, DriverFacts
<1> QED BY <1>3, <1>10, <1>13, <1>14 DEF n

-----------------------------------------------------------------------------
(* The table of drivers.                                                   *)

(* A driver is registered once.                                            *)
LEMMA RegisterDriverOK ==
  ASSUME NEW ds, DriversOK(ds), NEW d \in Drivers
  PROVE  DriversOK(RegisterDriver(ds, d))
<1>0. ds \in Seq(Drivers) /\ Len(ds) \in Nat /\ MAX_DEVICES \in Nat /\ DOMAIN ds = 1 .. Len(ds)
  BY DeviceAssumption DEF DriversOK
<1>1. CASE Len(ds) >= MAX_DEVICES \/ \E k \in DOMAIN ds : ds[k] = d
  BY <1>1 DEF RegisterDriver
<1>2. CASE ~(Len(ds) >= MAX_DEVICES \/ \E k \in DOMAIN ds : ds[k] = d)
  <2> DEFINE new == Append(ds, d)
  <2>1. RegisterDriver(ds, d) = new
    BY <1>2 DEF RegisterDriver
  <2>2. /\ new \in Seq(Drivers) /\ Len(new) = Len(ds) + 1
        /\ \A k \in 1 .. Len(new) : new[k] = IF k <= Len(ds) THEN ds[k] ELSE d
    BY <1>0
  <2> HIDE DEF new
  <2>3. \A k \in 1 .. Len(ds) : ds[k] # d
    BY <1>0, <1>2
  <2>4. ASSUME NEW j \in 1 .. Len(new), NEW k \in 1 .. Len(new), new[j] = new[k]
        PROVE  j = k
    BY <1>0, <2>2, <2>3, <2>4 DEF DriversOK
  <2> QED BY <1>0, <1>2, <2>1, <2>2, <2>4 DEF DriversOK
<1> QED BY <1>1, <1>2

LEMMA BuiltinOK ==
  ASSUME NEW ds, DriversOK(ds)
  PROVE  DriversOK(RegisterBuiltin(ds))
BY RegisterDriverOK, DriverFacts DEF RegisterBuiltin

-----------------------------------------------------------------------------
(* The inductive invariant.                                                *)

Phases ==
  {"early", "apic", "ps2", "pci", "fb", "probe", "init", "globals", "scheduler", "run", "panic",
   "fault"}

(* The numbers of the NVMe devices, n of which were given: the first       *)
(* device has 0, if its name could be allocated, and nobody else has.      *)
NumberOK(devs, n) ==
  /\ n \in 0 .. MAX_DEVICES
  /\ n = 0 <=> NoneUp(devs)
  /\ \A k \in 1 .. Len(devs) :
       Up(devs[k]) =>
         IF \A j \in 1 .. Len(devs) : Up(devs[j]) => k <= j
         THEN devs[k].name \in {<<"nvme", 0>>, <<"nvme?">>}
         ELSE devs[k].name # <<"nvme", 0>>

(* While devices are initialised: the ones that are up are behind place.   *)
Passed(devs, n, p) ==
  /\ n < p
  /\ \A k \in 1 .. Len(devs) : Up(devs[k]) => k < p

(* Behind every gate there is a PS/2 device that is initialised.           *)
GatesOK(devs, gs) ==
  /\ gs \subseteq {IRQ_KEYBOARD, IRQ_MOUSE}
  /\ \A irq \in gs : \E k \in 1 .. Len(devs) :
       devs[k].initialized /\ devs[k].bus = "ps2" /\ devs[k].irq = irq

Global == [{"rtc", "serial", "framebuffer", "nvme"} -> Index \cup {NULL}]

DeviceInv ==
  /\ hw \in Machines
  /\ pc \in Phases
  /\ place \in Nat \ {0}
  /\ TableOK(hw, devices)
  /\ DriversOK(drivers)
  /\ globals \in Global
  /\ unmasked \subseteq IrqLines
  /\ pc = "early" => devices = <<>> /\ drivers = <<>>
  /\ pc \in {"apic", "ps2"} => NoPci(devices)
  /\ NumberOK(devices, g_nvme_device_count)
  /\ pc \in {"early", "apic", "ps2", "pci", "fb", "probe"} =>
       g_nvme_device_count = 0 /\ gates = {}
  /\ pc = "init" => Passed(devices, g_nvme_device_count, place)
  /\ GatesOK(devices, gates)
  /\ GlobalsFirst
  /\ served # NULL => pc \in {"run", "fault"} /\ ReachesOwner

(* It implies what the run checks.                                         *)
LEMMA DeviceInvImplies ==
  ASSUME DeviceInv
  PROVE  InitializedWorks /\ GlobalsFirst /\ ReachesOwner
<1>0. hw \in Machine /\ MAX_DEVICES \in Nat
  BY DeviceAssumption DEF DeviceInv
<1>1. /\ devices \in Seq(DeviceType) /\ Len(devices) \in Nat /\ DOMAIN devices = 1 .. Len(devices)
      /\ Len(devices) <= MAX_DEVICES
  BY DEF DeviceInv, TableOK
<1>2. ASSUME NEW k \in 1 .. Len(devices)
      PROVE  /\ devices[k].drv \in Drivers \cup {NULL} /\ devices[k].driver_data \in 0 .. 1
             /\ devices[k].initialized =>
                  /\ devices[k].drv # NULL
                  /\ Driver[devices[k].drv].bus = devices[k].bus
                  /\ Driver[devices[k].drv].class = devices[k].class
                  /\ Probe(devices[k])
                  /\ devices[k].driver_data = IF KeepsData(devices[k]) THEN 1 ELSE 0
                  /\ NeedsCopy(devices[k]) => devices[k].os_data # NULL
  <2>1. DevOK(hw, devices[k])
    BY DEF DeviceInv, TableOK
  <2> DEFINE d == devices[k]
  <2> HIDE DEF d
  <2>2. d.drv \in Drivers \cup {NULL} /\ d.initialized \in BOOLEAN
    BY <2>1 DEF DevOK, DeviceType, d
  <2>3. d.driver_data = IF d.initialized /\ KeepsData(d) THEN 1 ELSE 0
    BY <2>1 DEF DevOK, d
  <2>4. ASSUME d.initialized
        PROVE  /\ d.drv # NULL
               /\ Driver[d.drv].bus = d.bus /\ Driver[d.drv].class = d.class /\ ProbeOK(hw, d)
               /\ NeedsCopy(d) => d.os_data # NULL
    BY <2>1, <2>4 DEF DevOK, Bound, d
  <2>5. d.initialized => Probe(d)
    BY <1>0, <2>2, <2>4, ProbeMeans
  <2> QED BY <2>2, <2>3, <2>4, <2>5 DEF d
<1>3. /\ drivers \in Seq(Drivers) /\ Len(drivers) <= MAX_DEVICES /\ DOMAIN drivers = 1 .. Len(drivers)
      /\ \A j, k \in 1 .. Len(drivers) : drivers[j] = drivers[k] => j = k
  BY DEF DeviceInv, DriversOK
<1>4. gates \subseteq IrqLines
  BY DEF DeviceInv, GatesOK, IrqLines
<1>5. TypeOK
  BY <1>1, <1>2, <1>3, <1>4 DEF TypeOK, DeviceInv, Phases, Global, NumberOK
<1>6. InitializedWorks
  BY <1>1, <1>2, <1>5 DEF InitializedWorks
<1>7. ReachesOwner
  BY DEF DeviceInv, ReachesOwner
<1> QED BY <1>6, <1>7 DEF DeviceInv

LEMMA InitInv ==
  ASSUME Init
  PROVE  DeviceInv
<1>1. /\ devices \in Seq(DeviceType) /\ Len(devices) = 0 /\ drivers \in Seq(Drivers)
      /\ Len(drivers) = 0 /\ MAX_DEVICES \in Nat
  BY DeviceAssumption DEF Init
<1>2. TableOK(hw, devices) /\ DriversOK(drivers) /\ NoPci(devices) /\ NoneUp(devices)
  BY <1>1 DEF TableOK, DriversOK, NoPci, NoneUp
<1>3. globals \in Global
  BY DEF Init, Global
<1>4. NumberOK(devices, g_nvme_device_count)
  BY <1>1, <1>2 DEF Init, NumberOK
<1> QED BY <1>2, <1>3, <1>4 DEF Init, DeviceInv, Phases, GatesOK, GlobalsFirst, IrqLines

-----------------------------------------------------------------------------
(* Every step keeps it.  Early is what the phases before initialisation    *)
(* have in common.                                                         *)

Early == {"early", "apic", "ps2", "pci", "fb", "probe"}

(* A step of those phases: devices are added or probed.                    *)
LEMMA EarlyStep ==
  ASSUME DeviceInv, pc \in Early, hw' = hw, TableOK(hw, devices'), NoneUp(devices'),
         DriversOK(drivers'), globals' \in Global, unmasked' \subseteq IrqLines, gates' = {},
         g_nvme_device_count' = g_nvme_device_count, served' = served, place' \in Nat \ {0},
         pc' \in (Early \ {"early"}) \cup {"init", "panic", "fault"},
         pc' \in {"apic", "ps2"} => NoPci(devices'), pc' = "init" => place' = 1
  PROVE  DeviceInv'
<1>1. g_nvme_device_count = 0 /\ g_nvme_device_count' = 0 /\ served = NULL
  BY DEF DeviceInv, Early
<1>2. NumberOK(devices, g_nvme_device_count)'
  BY <1>1, DeviceAssumption DEF NumberOK, NoneUp
<1>3. GatesOK(devices, gates)'
  BY DEF GatesOK
<1>4. pc' = "init" => Passed(devices, g_nvme_device_count, place)'
  BY <1>1 DEF Passed, NoneUp
<1>5. GlobalsFirst' /\ pc' \in Phases /\ served' = NULL
  BY <1>1 DEF GlobalsFirst, Early, Phases
<1>6. /\ (hw \in Machines)' /\ (place \in Nat \ {0})' /\ (globals \in Global)'
      /\ (unmasked \subseteq IrqLines)'
  BY DEF DeviceInv
<1>7. TableOK(hw, devices)' /\ DriversOK(drivers)'
  BY <1>6 DEF TableOK, DriversOK
<1> QED BY <1>1, <1>2, <1>3, <1>4, <1>5, <1>6, <1>7 DEF DeviceInv, Early

LEMMA PairAppend ==
  ASSUME NEW a, NEW b
  PROVE  Len(<<a>>) = 1 /\ Append(<<a>>, b) = <<a, b>>
<1>1. <<a>> \in Seq({a, b}) /\ <<a, b>> \in Seq({a, b}) /\ Len(<<a>>) = 1 /\ Len(<<a, b>>) = 2
  OBVIOUS
<1>2. /\ Append(<<a>>, b) \in Seq({a, b}) /\ Len(Append(<<a>>, b)) = 2
      /\ Append(<<a>>, b)[1] = a /\ Append(<<a>>, b)[2] = b
  BY <1>1
<1>3. \A k \in 1 .. 2 : Append(<<a>>, b)[k] = <<a, b>>[k]
  BY <1>2
<1> QED BY <1>1, <1>2, <1>3, SeqEqual

(* device_manager_early_init                                               *)
LEMMA EarlyInitStep ==
  ASSUME DeviceInv, device_manager_early_init
  PROVE  DeviceInv'
<1> DEFINE r == Device(<<"rtc">>, "platform", "misc", 0, NULL)
           s == Device(<<"serial">>, "platform", "char", 0, NULL)
           found == RegisterPlatform(RegisterPlatform(<<>>, "rtc", "misc"), "serial", "char")
           rtc == FindByName(found, <<"rtc">>)
           bound == [found[rtc] EXCEPT !.drv = "rtc"]
<1>0. /\ MAX_DEVICES \in Nat /\ MAX_DEVICES >= 5 /\ DevOK(hw, r) /\ DevOK(hw, s)
      /\ r.name = <<"rtc">> /\ s.name = <<"serial">> /\ <<"rtc">> # <<"serial">>
      /\ r.bus = "platform" /\ s.bus = "platform" /\ ~r.initialized /\ ~s.initialized
      /\ r.class = "misc"
  BY DeviceAssumption, DetectedOK, NamesDiffer DEF Device
<1>1. PICK ok \in BOOLEAN :
        /\ drivers' = RegisterDriver(<<>>, "rtc")
        /\ devices' = [found EXCEPT ![rtc] = IF ok THEN Ready(bound, bound.name) ELSE bound]
        /\ globals' = IF ok THEN [globals EXCEPT !.rtc = rtc] ELSE globals
  BY Zenon DEF device_manager_early_init
<1>2. found = <<r, s>>
  <2>1. FindByName(<<>>, <<"rtc">>) = NULL
    <3>1. {k \in DOMAIN <<>> : <<>>[k].name = <<"rtc">>} = {}
      OBVIOUS
    <3> QED BY <3>1 DEF FindByName, First
  <2>2. RegisterPlatform(<<>>, "rtc", "misc") = <<r>>
    BY <1>0, <2>1 DEF RegisterPlatform, Register
  <2>3. FindByName(<<r>>, <<"serial">>) = NULL
    <3> HIDE DEF r
    <3>1. {k \in DOMAIN <<r>> : <<r>>[k].name = <<"serial">>} = {}
      BY <1>0
    <3> QED BY <3>1 DEF FindByName, First
  <2>4. RegisterPlatform(<<r>>, "serial", "char") = <<r, s>>
    <3>1. RegisterPlatform(<<r>>, "serial", "char") = Register(<<r>>, s)
      BY <2>3 DEF RegisterPlatform
    <3> HIDE DEF r, s
    <3>2. Len(<<r>>) = 1 /\ Append(<<r>>, s) = <<r, s>>
      BY PairAppend
    <3> QED BY <1>0, <3>1, <3>2 DEF Register
  <2> QED BY <2>2, <2>4
<1> HIDE DEF found, r, s
<1>3. rtc = 1
  <2> DEFINE T == {k \in DOMAIN found : found[k].name = <<"rtc">>}
  <2>1. T \in SUBSET Nat /\ 1 \in T /\ \A x \in T : 1 <= x
    BY <1>0, <1>2
  <2>2. First(T) = 1
    <3> HIDE DEF T
    <3> QED BY <2>1, FirstIs
  <2> QED BY <2>2 DEF FindByName
<1>4. bound = [r EXCEPT !.drv = "rtc"]
  BY <1>2, <1>3
<1> HIDE DEF bound, rtc
<1>5. r \in DeviceType
  BY <1>0 DEF DevOK
<1>6. /\ bound \in DeviceType /\ bound.drv = "rtc" /\ bound.bus = "platform" /\ bound.class = "misc"
      /\ bound.name = r.name /\ bound.initialized = r.initialized /\ bound.irq = r.irq
      /\ bound.driver_data = r.driver_data
  BY <1>0, <1>4, <1>5, DriverFacts DEF DeviceType
<1>7. DevOK(hw, bound)
  <2>1. Bound(hw, bound)
    BY <1>6, DriverFacts DEF Bound, ProbeOK, NeedsCopy
  <2>2. Named(bound)
    BY <1>0, <1>6 DEF Named, DevOK
  <2>3. Wired(bound)
    BY <1>0, <1>6 DEF Wired, DevOK
  <2> QED BY <1>0, <1>6, <2>1, <2>2, <2>3 DEF DevOK
<1>8. DevOK(hw, Ready(bound, bound.name)) /\ Ready(bound, bound.name).bus = "platform"
      /\ Ready(bound, bound.name).name = <<"rtc">> /\ Ready(bound, bound.name).drv = "rtc"
  <2>1. g_nvme_device_count \in Nat
    BY DEF DeviceInv, NumberOK
  <2>2. ~Skip(bound)
    BY <1>0, <1>6, DeviceAssumption, DriverFacts DEF Skip
  <2>3. bound.name \in NewNames(bound)
    BY <1>6 DEF NewNames
  <2> QED BY <1>0, <1>6, <1>7, <2>1, <2>2, <2>3, ReadyOK
<1>9. PICK d : /\ devices' = <<d, s>> /\ DevOK(hw, d) /\ d.bus = "platform" /\ d.name = <<"rtc">>
               /\ d.drv = "rtc"
  <2>1. devices' = [<<r, s>> EXCEPT ![1] = IF ok THEN Ready(bound, bound.name) ELSE bound]
    BY <1>1, <1>2, <1>3
  <2>2. \A d : [<<r, s>> EXCEPT ![1] = d] = <<d, s>>
    OBVIOUS
  <2> QED BY <1>0, <1>6, <1>7, <1>8, <2>1, <2>2
<1>10. TableOK(hw, devices') /\ NoPci(devices') /\ NoneUp(devices')
  <2>0. d \in DeviceType /\ s \in DeviceType
    BY <1>0, <1>9 DEF DevOK
  <2>1. /\ devices' \in Seq(DeviceType) /\ Len(devices') = 2 /\ devices'[1] = d /\ devices'[2] = s
    BY <1>9, <2>0
  <2>2. \A k \in 1 .. Len(devices') : k = 1 \/ k = 2
    BY <2>1
  <2> QED BY <1>0, <1>9, <2>1, <2>2 DEF TableOK, NoPci, NoneUp, Up
<1>11. DriversOK(drivers')
  <2>1. DriversOK(<<>>)
    BY DeviceAssumption DEF DriversOK
  <2> QED BY <1>1, <2>1, RegisterDriverOK, DriverFacts
<1>12. globals' \in Global
  <2>1. 1 \in Index \cup {NULL}
    BY <1>0 DEF Index
  <2> QED BY <1>1, <1>3, <2>1 DEF DeviceInv, Global
<1>13. /\ hw' = hw /\ pc = "early" /\ pc' = "apic" /\ place' = place /\ served' = served
       /\ g_nvme_device_count' = g_nvme_device_count /\ unmasked' = unmasked /\ gates' = gates
  BY DEF device_manager_early_init
<1>14. gates' = {} /\ unmasked' \subseteq IrqLines /\ place' \in Nat \ {0}
  BY <1>13 DEF DeviceInv
<1>15. pc \in Early /\ pc' \in (Early \ {"early"}) \cup {"init", "panic", "fault"} /\ pc' # "init"
  BY <1>13 DEF Early
<1> QED BY <1>10, <1>11, <1>12, <1>13, <1>14, <1>15, EarlyStep

(* ioapic_init                                                             *)
LEMMA IoapicStep ==
  ASSUME DeviceInv, ioapic_init
  PROVE  DeviceInv'
<1>1. /\ hw' = hw /\ pc = "apic" /\ pc' \in {"ps2", "panic"} /\ place' = place /\ served' = served
      /\ g_nvme_device_count' = g_nvme_device_count /\ devices' = devices /\ drivers' = drivers
      /\ globals' = globals /\ gates' = {} /\ (unmasked' = {} \/ unmasked' = unmasked)
  BY DEF ioapic_init, NextPhase
<1>2. NoneUp(devices) /\ NoPci(devices)
  BY <1>1 DEF DeviceInv, NumberOK
<1>3. /\ TableOK(hw, devices') /\ DriversOK(drivers') /\ NoneUp(devices') /\ NoPci(devices')
      /\ globals' \in Global /\ unmasked' \subseteq IrqLines /\ place' \in Nat \ {0}
  BY <1>1, <1>2 DEF DeviceInv
<1>4. pc \in Early /\ pc' \in (Early \ {"early"}) \cup {"init", "panic", "fault"} /\ pc' # "init"
  BY <1>1 DEF Early
<1> QED BY <1>1, <1>3, <1>4, EarlyStep

(* hw_detect_ps2_scan                                                      *)
LEMMA Ps2ScanStep ==
  ASSUME DeviceInv, hw_detect_ps2_scan
  PROVE  DeviceInv'
<1>1. /\ hw' = hw /\ pc = "ps2" /\ pc' = "pci" /\ place' = 1 /\ served' = served
      /\ g_nvme_device_count' = g_nvme_device_count /\ drivers' = drivers
      /\ globals' = globals /\ gates' = gates /\ unmasked' = unmasked
  BY DEF hw_detect_ps2_scan, NextPhase
<1>2. PICK one \in Copied(IRQ_KEYBOARD), two \in Copied(IRQ_MOUSE) :
        devices' =
          LET first == IF hw.selftest /\ hw.port1
                         THEN Register(devices, Ps2Device(IRQ_KEYBOARD, one)) ELSE devices
          IN IF hw.selftest /\ hw.dual_channel /\ hw.port2
               THEN Register(first, Ps2Device(IRQ_MOUSE, two)) ELSE first
  BY Zenon DEF hw_detect_ps2_scan
<1> DEFINE first == IF hw.selftest /\ hw.port1
                      THEN Register(devices, Ps2Device(IRQ_KEYBOARD, one)) ELSE devices
<1>3. NoneUp(devices) /\ NoPci(devices) /\ TableOK(hw, devices)
  BY <1>1 DEF DeviceInv, NumberOK
<1>4. ASSUME NEW devs, TableOK(hw, devs), NoPci(devs), NoneUp(devs),
             NEW irq \in {IRQ_KEYBOARD, IRQ_MOUSE}, NEW info \in Copied(irq)
      PROVE  /\ TableOK(hw, Register(devs, Ps2Device(irq, info)))
             /\ NoPci(Register(devs, Ps2Device(irq, info)))
             /\ NoneUp(Register(devs, Ps2Device(irq, info)))
  <2> DEFINE d == Ps2Device(irq, info)
  <2>1. DevOK(hw, d) /\ d.name # <<"serial">> /\ d.bus = "ps2" /\ ~d.initialized
    BY <1>4, DetectedOK, DetectedShape
  <2> HIDE DEF d
  <2>2. TableOK(hw, Register(devs, d)) /\ NoPci(Register(devs, d)) /\ NoneUp(Register(devs, d))
    BY <1>4, <2>1, RegisterOK
  <2> QED BY <2>2 DEF d
<1>5. TableOK(hw, first) /\ NoPci(first) /\ NoneUp(first)
  BY <1>3, <1>4
<1>x. devices' = IF hw.selftest /\ hw.dual_channel /\ hw.port2
                   THEN Register(first, Ps2Device(IRQ_MOUSE, two)) ELSE first
  BY <1>2
<1> HIDE DEF first
<1>6. TableOK(hw, devices') /\ NoPci(devices') /\ NoneUp(devices')
  BY <1>x, <1>4, <1>5
<1>7. /\ DriversOK(drivers') /\ globals' \in Global /\ unmasked' \subseteq IrqLines
      /\ place' \in Nat \ {0} /\ gates' = {}
  BY <1>1 DEF DeviceInv
<1>8. pc \in Early /\ pc' \in (Early \ {"early"}) \cup {"init", "panic", "fault"} /\ pc' # "init"
  BY <1>1 DEF Early
<1> QED BY <1>1, <1>6, <1>7, <1>8, EarlyStep

(* The place of a function is in a slot there is.                          *)
LEMMA SlotOfPlace ==
  ASSUME NEW p \in Nat \ {0}, NEW n \in Nat, ~(p > FUNCTIONS * n)
  PROVE  /\ ((p - 1) \div FUNCTIONS) + 1 \in 1 .. n
         /\ ((p - 1) % FUNCTIONS) + 1 \in 1 .. FUNCTIONS
<1> DEFINE q == (p - 1) \div FUNCTIONS
           r == (p - 1) % FUNCTIONS
<1>0. FUNCTIONS \in Nat /\ FUNCTIONS > 0 /\ p - 1 \in Nat
  BY DeviceAssumption
<1>1. q \in Int /\ r \in 0 .. FUNCTIONS - 1 /\ p - 1 = FUNCTIONS * q + r
  BY <1>0
<1> HIDE DEF q, r
<1>2. q < n
  <2> SUFFICES ASSUME q >= n PROVE FALSE
    BY <1>1
  <2>1. FUNCTIONS * q >= FUNCTIONS * n
    BY <1>0, <1>1
  <2>2. FUNCTIONS * q \in Int /\ FUNCTIONS * n \in Int
    BY <1>0, <1>1
  <2> QED BY <1>1, <2>1, <2>2
<1>3. q >= 0
  <2> SUFFICES ASSUME q <= -1 PROVE FALSE
    BY <1>1
  <2>1. FUNCTIONS * q <= -FUNCTIONS
    BY <1>0, <1>1
  <2>2. FUNCTIONS * q \in Int
    BY <1>0, <1>1
  <2> QED BY <1>0, <1>1, <2>1, <2>2
<1>4. q + 1 \in 1 .. n /\ r + 1 \in 1 .. FUNCTIONS
  BY <1>0, <1>1, <1>2, <1>3
<1> QED BY <1>4 DEF q, r

(* hw_detect_pci_scan                                                      *)
LEMMA PciScanStep ==
  ASSUME DeviceInv, hw_detect_pci_scan
  PROVE  DeviceInv'
<1> DEFINE slot == hw.pci[((place - 1) \div FUNCTIONS) + 1]
           func == ((place - 1) % FUNCTIONS) + 1
<1>1. /\ hw' = hw /\ pc = "pci" /\ served' = served
      /\ g_nvme_device_count' = g_nvme_device_count /\ drivers' = drivers
      /\ globals' = globals /\ gates' = gates /\ unmasked' = unmasked
  BY DEF hw_detect_pci_scan
<1>2. NoneUp(devices) /\ TableOK(hw, devices) /\ place \in Nat \ {0} /\ hw \in Machine
  BY <1>1, DeviceAssumption DEF DeviceInv, NumberOK
<1>3. /\ DriversOK(drivers') /\ globals' \in Global /\ unmasked' \subseteq IrqLines /\ gates' = {}
  BY <1>1 DEF DeviceInv
<1>4. CASE place > FUNCTIONS * Len(hw.pci)
  <2>1. pc' = "fb" /\ place' = 1 /\ devices' = devices
    BY <1>1, <1>4 DEF hw_detect_pci_scan, NextPhase
  <2>2. pc \in Early /\ pc' \in (Early \ {"early"}) \cup {"init", "panic", "fault"} /\ pc' # "init"
        /\ pc' \notin {"apic", "ps2"} /\ place' \in Nat \ {0}
    BY <1>1, <2>1 DEF Early
  <2>3. TableOK(hw, devices') /\ NoneUp(devices')
    BY <1>2, <2>1
  <2> QED BY <1>1, <1>3, <2>2, <2>3, EarlyStep
<1>5. CASE ~(place > FUNCTIONS * Len(hw.pci))
  <2>1. /\ \/ devices' = devices
           \/ /\ Seen(slot, func)
              /\ \E info \in Copied(slot.fn[func]) :
                   devices' = Register(devices, PciDevice(slot.fn[func], info))
        /\ place' = place + 1 /\ pc' = "pci"
    BY <1>1, <1>5 DEF hw_detect_pci_scan
  <2>2. hw.pci \in Seq(PciSlot) /\ Len(hw.pci) \in Nat
    BY <1>2 DEF Machine
  <2>3. ((place - 1) \div FUNCTIONS) + 1 \in 1 .. Len(hw.pci) /\ func \in 1 .. FUNCTIONS
    BY <1>2, <1>5, <2>2, SlotOfPlace
  <2>4. slot \in PciSlot
    BY <2>2, <2>3
  <2> HIDE DEF slot, func
  <2>5. slot.fn[func] \in PciFunction \cup {ABSENT}
    BY <2>3, <2>4 DEF PciSlot
  <2>6. TableOK(hw, devices') /\ NoneUp(devices')
    <3>1. CASE devices' = devices
      BY <1>2, <3>1
    <3>2. CASE /\ Seen(slot, func)
               /\ \E info \in Copied(slot.fn[func]) :
                    devices' = Register(devices, PciDevice(slot.fn[func], info))
      <4>0. PICK info \in Copied(slot.fn[func]) :
              devices' = Register(devices, PciDevice(slot.fn[func], info))
        BY <3>2
      <4> DEFINE d == PciDevice(slot.fn[func], info)
      <4>1. slot.fn[func] \in PciFunction
        BY <2>5, <3>2 DEF Seen
      <4>2. DevOK(hw, d) /\ d.name # <<"serial">> /\ d.bus = "pci" /\ ~d.initialized
        BY <4>1, DetectedOK, DetectedShape
      <4> HIDE DEF d
      <4>3. TableOK(hw, Register(devices, d)) /\ NoneUp(Register(devices, d))
        BY <1>2, <4>2, RegisterOK
      <4> QED BY <4>0, <4>3 DEF d
    <3> QED BY <2>1, <3>1, <3>2
  <2>7. pc \in Early /\ pc' \in (Early \ {"early"}) \cup {"init", "panic", "fault"} /\ pc' # "init"
        /\ pc' \notin {"apic", "ps2"}
    BY <1>1, <2>1 DEF Early
  <2>8. place' \in Nat \ {0}
    BY <1>2, <2>1
  <2> QED BY <1>1, <1>3, <2>6, <2>7, <2>8, EarlyStep
<1> QED BY <1>4, <1>5

(* register_framebuffers                                                   *)
LEMMA FramebuffersStep ==
  ASSUME DeviceInv, register_framebuffers
  PROVE  DeviceInv'
<1>1. /\ hw' = hw /\ pc = "fb" /\ served' = served
      /\ g_nvme_device_count' = g_nvme_device_count
      /\ globals' = globals /\ gates' = gates /\ unmasked' = unmasked
  BY DEF register_framebuffers
<1>2. NoneUp(devices) /\ TableOK(hw, devices) /\ DriversOK(drivers) /\ place \in Nat \ {0}
  BY <1>1 DEF DeviceInv, NumberOK
<1>3. globals' \in Global /\ unmasked' \subseteq IrqLines /\ gates' = {}
  BY <1>1 DEF DeviceInv
<1>4. CASE place > hw.framebuffers
  <2>1. pc' = "probe" /\ place' = 1 /\ devices' = devices /\ drivers' = RegisterBuiltin(drivers)
    BY <1>1, <1>4 DEF register_framebuffers, NextPhase
  <2>2. DriversOK(drivers') /\ TableOK(hw, devices') /\ NoneUp(devices')
    BY <1>2, <2>1, BuiltinOK
  <2>3. pc \in Early /\ pc' \in (Early \ {"early"}) \cup {"init", "panic", "fault"} /\ pc' # "init"
        /\ pc' \notin {"apic", "ps2"} /\ place' \in Nat \ {0}
    BY <1>1, <2>1 DEF Early
  <2> QED BY <1>1, <1>3, <2>2, <2>3, EarlyStep
<1>5. CASE ~(place > hw.framebuffers)
  <2>1. pc' = "fb" /\ place' = place + 1 /\ devices' = Register(devices, Framebuffer)
        /\ drivers' = drivers
    BY <1>1, <1>5 DEF register_framebuffers
  <2>2. TableOK(hw, devices') /\ NoneUp(devices')
    BY <1>2, <2>1, DetectedOK, DetectedShape, RegisterOK
  <2>3. pc \in Early /\ pc' \in (Early \ {"early"}) \cup {"init", "panic", "fault"} /\ pc' # "init"
        /\ pc' \notin {"apic", "ps2"} /\ place' \in Nat \ {0} /\ DriversOK(drivers')
    BY <1>1, <1>2, <2>1 DEF Early
  <2> QED BY <1>1, <1>3, <2>2, <2>3, EarlyStep
<1> QED BY <1>4, <1>5

(* device_manager_probe_all                                                *)
LEMMA ProbeStep ==
  ASSUME DeviceInv, device_manager_probe_all
  PROVE  DeviceInv'
<1>1. /\ hw' = hw /\ pc = "probe" /\ served' = served
      /\ g_nvme_device_count' = g_nvme_device_count /\ drivers' = drivers
      /\ globals' = globals /\ gates' = gates /\ unmasked' = unmasked
      /\ place <= Len(devices)
  BY DEF device_manager_probe_all
<1>f. CASE ProbeFaults(devices[place])
  <2>1. pc' = "fault" /\ devices' = devices /\ place' = place
    BY <1>f DEF device_manager_probe_all
  <2>2. /\ TableOK(hw, devices') /\ NoneUp(devices') /\ DriversOK(drivers') /\ globals' \in Global
        /\ unmasked' \subseteq IrqLines /\ gates' = {} /\ place' \in Nat \ {0}
    BY <1>1, <2>1 DEF DeviceInv, NumberOK
  <2>3. pc \in Early /\ pc' \in (Early \ {"early"}) \cup {"init", "panic", "fault"} /\ pc' # "init"
        /\ pc' \notin {"apic", "ps2"}
    BY <1>1, <2>1 DEF Early
  <2> QED BY <1>1, <2>2, <2>3, EarlyStep
<1>g. SUFFICES ASSUME ~ProbeFaults(devices[place])
               PROVE  DeviceInv'
  BY <1>f
<1>p. /\ pc' = "probe" /\ place' = place + 1
      /\ devices' = [devices EXCEPT ![place] = Probed(devices[place])]
  BY <1>1, <1>g DEF device_manager_probe_all
<1>2. /\ NoneUp(devices) /\ TableOK(hw, devices) /\ DriversOK(drivers) /\ place \in Nat \ {0}
      /\ hw \in Machine /\ devices \in Seq(DeviceType)
  BY <1>1, DeviceAssumption DEF DeviceInv, NumberOK, TableOK
<1>3. place \in 1 .. Len(devices)
  BY <1>1, <1>2
<1>4. DevOK(hw, devices[place])
  BY <1>2, <1>3 DEF TableOK
<1> DEFINE d == devices[place]
           n == Probed(d)
<1>5. /\ DevOK(hw, n) /\ n.bus = d.bus /\ n.name = d.name /\ n.initialized = d.initialized
      /\ d.initialized => n = d
  BY <1>2, <1>4, <1>g, ProbedOK
<1> HIDE DEF n
<1>6. /\ TableOK(hw, [devices EXCEPT ![place] = n])
      /\ Len([devices EXCEPT ![place] = n]) = Len(devices)
      /\ \A k \in 1 .. Len(devices) : [devices EXCEPT ![place] = n][k] = IF k = place THEN n ELSE devices[k]
  BY <1>2, <1>3, <1>5, ReplaceOK
<1>7. devices' = [devices EXCEPT ![place] = n]
  BY <1>p DEF n
<1>8. TableOK(hw, devices') /\ NoneUp(devices')
  <2>1. ~Up(n)
    BY <1>2, <1>3, <1>5 DEF NoneUp, Up
  <2> QED BY <1>2, <1>6, <1>7, <2>1 DEF NoneUp
<1>9. /\ DriversOK(drivers') /\ globals' \in Global /\ unmasked' \subseteq IrqLines /\ gates' = {}
      /\ place' \in Nat \ {0}
  BY <1>1, <1>p DEF DeviceInv
<1>10. pc \in Early /\ pc' \in (Early \ {"early"}) \cup {"init", "panic", "fault"} /\ pc' # "init"
       /\ pc' \notin {"apic", "ps2"}
  BY <1>1, <1>p DEF Early
<1> QED BY <1>1, <1>8, <1>9, <1>10, EarlyStep

(* The loops over the table end.                                           *)
LEMMA PhaseEndsStep ==
  ASSUME DeviceInv, PhaseEnds("probe") \/ PhaseEnds("init")
  PROVE  DeviceInv'
<1>1. /\ hw' = hw /\ served' = served /\ place' = 1 /\ devices' = devices
      /\ g_nvme_device_count' = g_nvme_device_count /\ drivers' = drivers
      /\ globals' = globals /\ gates' = gates /\ unmasked' = unmasked
  BY DEF PhaseEnds
<1>2. CASE PhaseEnds("probe")
  <2>1. pc = "probe" /\ pc' = "init"
    BY <1>2 DEF PhaseEnds, NextPhase
  <2>2. NoneUp(devices) /\ TableOK(hw, devices) /\ gates' = {} /\ DriversOK(drivers')
        /\ globals' \in Global /\ unmasked' \subseteq IrqLines
    BY <1>1, <2>1 DEF DeviceInv, NumberOK
  <2>3. pc \in Early /\ pc' \in (Early \ {"early"}) \cup {"init", "panic", "fault"}
        /\ pc' \notin {"apic", "ps2"} /\ place' \in Nat \ {0}
    BY <1>1, <2>1 DEF Early
  <2>4. TableOK(hw, devices') /\ NoneUp(devices')
    BY <1>1, <2>2
  <2> QED BY <1>1, <2>2, <2>3, <2>4, EarlyStep
<1>3. CASE PhaseEnds("init")
  <2>1. pc = "init" /\ pc' = "globals"
    BY <1>3 DEF PhaseEnds, NextPhase
  <2>2. served = NULL
    BY <2>1 DEF DeviceInv
  <2> QED BY <1>1, <2>1, <2>2 DEF DeviceInv, Phases, GlobalsFirst
<1> QED BY <1>2, <1>3

(* The first device has number 0, before and after an NVMe device comes up *)
(* behind all others.                                                      *)
LEMMA NumberStep ==
  ASSUME NEW devs, NEW g, NumberOK(devs, g), NEW p \in 1 .. Len(devs), Passed(devs, g, p),
         Len(devs) \in Nat, Len(devs) <= MAX_DEVICES,
         NEW new, Len(new) = Len(devs), NEW n, ~devs[p].initialized,
         \A k \in 1 .. Len(devs) : new[k] = IF k = p THEN n ELSE devs[k],
         NEW h, h = IF n.drv = "nvme" THEN g + 1 ELSE g, n.initialized,
         n.drv = "nvme" => n.name \in {<<"nvme", g>>, <<"nvme?">>}
  PROVE  NumberOK(new, h) /\ Passed(new, h, p + 1)
<1>0. g \in Nat /\ MAX_DEVICES \in Nat /\ p \in Nat /\ g < p /\ h \in Nat
  BY DeviceAssumption DEF NumberOK, Passed
<1>1. ~Up(devs[p])
  BY DEF Up
<1>2. \A k \in 1 .. Len(devs) : Up(devs[k]) => k < p
  BY DEF Passed
<1>3. CASE n.drv = "nvme"
  <2>1. Up(n) /\ h = g + 1
    BY <1>3 DEF Up
  <2>2. \A k \in 1 .. Len(devs) : Up(new[k]) <=> (k = p \/ Up(devs[k]))
    BY <1>1, <2>1
  <2>3. new[p] = n
    OBVIOUS
  <2>4. h \in 0 .. MAX_DEVICES /\ h # 0 /\ h < p + 1
    BY <1>0, <2>1
  <2>5. ~NoneUp(new)
    BY <2>1, <2>3 DEF NoneUp
  <2>6. \A k \in 1 .. Len(devs) : Up(new[k]) => k < p + 1
    BY <1>0, <1>2, <2>2
  <2>7. ASSUME NEW k \in 1 .. Len(new), Up(new[k])
        PROVE  IF \A j \in 1 .. Len(new) : Up(new[j]) => k <= j
               THEN new[k].name \in {<<"nvme", 0>>, <<"nvme?">>}
               ELSE new[k].name # <<"nvme", 0>>
    <3>1. CASE k = p /\ \A j \in 1 .. Len(new) : Up(new[j]) => k <= j
      <4>1. \A j \in 1 .. Len(devs) : ~Up(devs[j])
        BY <1>0, <1>2, <2>2, <3>1
      <4>2. g = 0
        BY <4>1 DEF NumberOK, NoneUp
      <4> QED BY <1>3, <2>3, <3>1, <4>2
    <3>2. CASE k = p /\ ~(\A j \in 1 .. Len(new) : Up(new[j]) => k <= j)
      <4>1. PICK j \in 1 .. Len(new) : Up(new[j]) /\ ~(k <= j)
        BY <3>2
      <4>2. Up(devs[j])
        BY <2>2, <3>2, <4>1
      <4>3. g # 0
        BY <4>2 DEF NumberOK, NoneUp
      <4>4. <<"nvme", g>> # <<"nvme", 0>> /\ <<"nvme?">> # <<"nvme", 0>>
        BY <1>0, <4>3, NamesDiffer
      <4>5. n.name # <<"nvme", 0>>
        BY <1>3, <4>4
      <4> QED BY <2>3, <3>2, <4>5
    <3>3. CASE k # p
      <4>1. Up(devs[k]) /\ new[k] = devs[k] /\ k < p
        BY <1>2, <2>2, <2>7, <3>3
      <4>2. (\A j \in 1 .. Len(new) : Up(new[j]) => k <= j)
            <=> (\A j \in 1 .. Len(devs) : Up(devs[j]) => k <= j)
        BY <1>0, <2>2, <4>1
      <4> QED BY <4>1, <4>2 DEF NumberOK
    <3> QED BY <3>1, <3>2, <3>3
  <2> QED BY <2>4, <2>5, <2>6, <2>7 DEF NumberOK, Passed
<1>4. CASE n.drv # "nvme"
  <2>1. ~Up(n) /\ h = g
    BY <1>4 DEF Up
  <2>2. \A k \in 1 .. Len(devs) : Up(new[k]) <=> Up(devs[k])
    BY <1>1, <2>1
  <2>3. \A k \in 1 .. Len(devs) : Up(devs[k]) => new[k] = devs[k]
    BY <1>1
  <2>4. NoneUp(new) <=> NoneUp(devs)
    BY <2>2 DEF NoneUp
  <2>5. \A k \in 1 .. Len(devs) : Up(new[k]) => k < p + 1
    BY <1>0, <1>2, <2>2
  <2>6. ASSUME NEW k \in 1 .. Len(new), Up(new[k])
        PROVE  IF \A j \in 1 .. Len(new) : Up(new[j]) => k <= j
               THEN new[k].name \in {<<"nvme", 0>>, <<"nvme?">>}
               ELSE new[k].name # <<"nvme", 0>>
    <3>1. Up(devs[k]) /\ new[k] = devs[k]
      BY <2>2, <2>3, <2>6
    <3>2. (\A j \in 1 .. Len(new) : Up(new[j]) => k <= j)
          <=> (\A j \in 1 .. Len(devs) : Up(devs[j]) => k <= j)
      BY <2>2
    <3> QED BY <3>1, <3>2 DEF NumberOK
  <2> QED BY <1>0, <2>1, <2>4, <2>5, <2>6 DEF NumberOK, Passed
<1> QED BY <1>3, <1>4

(* device_manager_init_all                                                 *)
LEMMA InitAllStep ==
  ASSUME DeviceInv, device_manager_init_all
  PROVE  DeviceInv'
<1> DEFINE d == devices[place]
           g == g_nvme_device_count
<1>1. /\ hw' = hw /\ pc = "init" /\ pc' = "init" /\ served' = served /\ place' = place + 1
      /\ drivers' = drivers /\ globals' = globals /\ place <= Len(devices)
  BY DEF device_manager_init_all
<1>2. /\ TableOK(hw, devices) /\ place \in Nat \ {0} /\ devices \in Seq(DeviceType)
      /\ Len(devices) \in Nat /\ Len(devices) <= MAX_DEVICES /\ served = NULL
      /\ NumberOK(devices, g) /\ Passed(devices, g, place) /\ g \in Nat /\ GatesOK(devices, gates)
      /\ unmasked \subseteq IrqLines
  <2>1. /\ TableOK(hw, devices) /\ place \in Nat \ {0} /\ served = NULL
        /\ NumberOK(devices, g) /\ Passed(devices, g, place) /\ GatesOK(devices, gates)
        /\ unmasked \subseteq IrqLines
    BY <1>1 DEF DeviceInv
  <2>2. devices \in Seq(DeviceType) /\ Len(devices) <= MAX_DEVICES
    BY <2>1 DEF TableOK
  <2>3. Len(devices) \in Nat
    BY <2>2
  <2>4. g \in Nat
    BY <2>1 DEF NumberOK
  <2> HIDE DEF g
  <2> QED BY <2>1, <2>2, <2>3, <2>4
<1>3. place \in 1 .. Len(devices)
  BY <1>1, <1>2
<1>4. /\ (pc \in Phases)' /\ (hw \in Machines)' /\ (place \in Nat \ {0})' /\ DriversOK(drivers)'
      /\ (globals \in Global)' /\ GlobalsFirst' /\ served' = NULL
  BY <1>1, <1>2 DEF DeviceInv, GlobalsFirst, Phases
<1>5. SUFFICES /\ TableOK(hw, devices') /\ unmasked' \subseteq IrqLines
               /\ NumberOK(devices', g') /\ Passed(devices', g', place')
               /\ GatesOK(devices', gates')
  BY <1>1, <1>4 DEF DeviceInv, TableOK, NumberOK, Passed, GatesOK
<1>6. ASSUME devices' = devices, g' = g, unmasked' = unmasked, gates' = gates
      PROVE  /\ TableOK(hw, devices') /\ unmasked' \subseteq IrqLines
             /\ NumberOK(devices', g') /\ Passed(devices', g', place')
             /\ GatesOK(devices', gates')
  <2>1. Passed(devices, g, place + 1)
    BY <1>2 DEF Passed
  <2> QED BY <1>1, <1>2, <1>6, <2>1
<1>7. CASE Skip(d) /\ devices' = devices /\ g' = g /\ unmasked' = unmasked /\ gates' = gates
  BY <1>6, <1>7
<1>8. CASE /\ ~Skip(d)
           /\ \E ok \in InitResults(d), name \in NewNames(d) :
                /\ g_nvme_device_count' = CountNvme(d, ok)
                /\ devices' = IF ok THEN [devices EXCEPT ![place] = Ready(d, name)] ELSE devices
                /\ unmasked' = IF ok THEN unmasked \cup Lines(d) ELSE unmasked
                /\ gates' = IF ok THEN gates \cup GatesOf(d) ELSE gates
  <2>1. PICK ok \in InitResults(d), name \in NewNames(d) :
               /\ g_nvme_device_count' = CountNvme(d, ok)
               /\ devices' = IF ok THEN [devices EXCEPT ![place] = Ready(d, name)] ELSE devices
               /\ unmasked' = IF ok THEN unmasked \cup Lines(d) ELSE unmasked
               /\ gates' = IF ok THEN gates \cup GatesOf(d) ELSE gates
    BY <1>8
  <2>2. ok \in BOOLEAN
    BY DEF InitResults
  <2>3. CASE ~ok
    <3>1. devices' = devices /\ g' = g /\ unmasked' = unmasked /\ gates' = gates
      BY <2>1, <2>3 DEF CountNvme
    <3> QED BY <1>6, <3>1
  <2>4. CASE ok
    <3> DEFINE n == Ready(d, name)
               new == [devices EXCEPT ![place] = n]
    <3>1. DevOK(hw, d) /\ ~Skip(d)
      BY <1>2, <1>3, <1>8 DEF TableOK
    <3>2. /\ DevOK(hw, n) /\ n.bus = d.bus /\ n.drv = d.drv /\ n.name = name /\ n.initialized
          /\ name = <<"serial">> => d.name = <<"serial">>
          /\ d.drv = "ps2" => d.bus = "ps2" /\ n.irq = d.irq
      BY <1>2, <3>1, ReadyOK
    <3>3. ~d.initialized
      BY <3>1 DEF Skip
    <3> HIDE DEF n
    <3>4. /\ TableOK(hw, new) /\ Len(new) = Len(devices)
          /\ \A k \in 1 .. Len(devices) : new[k] = IF k = place THEN n ELSE devices[k]
      <4>1. /\ DevOK(hw, n) /\ n.bus = devices[place].bus
            /\ n.name = <<"serial">> => devices[place].name = <<"serial">>
        BY <3>2
      <4> QED BY <1>2, <1>3, <4>1, ReplaceOK
    <3>5. devices' = new
      BY <2>1, <2>4 DEF n
    <3> HIDE DEF new
    <3>6. g' = IF n.drv = "nvme" THEN g + 1 ELSE g
      BY <2>1, <2>4, <3>2 DEF CountNvme
    <3>7. n.drv = "nvme" => n.name \in {<<"nvme", g>>, <<"nvme?">>}
      BY <3>2 DEF NewNames
    <3>8. NumberOK(new, g') /\ Passed(new, g', place + 1)
      <4> HIDE DEF g
      <4> QED BY <1>2, <1>3, <3>2, <3>3, <3>4, <3>6, <3>7, NumberStep
    <3>9. unmasked' \subseteq IrqLines
      <4>1. Lines(d) \subseteq IrqLines
        BY <3>1, <3>2 DEF Lines, IrqLines, DevOK, Wired
      <4> QED BY <1>2, <2>1, <2>4, <4>1
    <3>10. GatesOK(new, gates')
      <4>1. gates' = gates \cup GatesOf(d)
        BY <2>1, <2>4
      <4>2. gates' \subseteq {IRQ_KEYBOARD, IRQ_MOUSE}
        BY <1>2, <4>1 DEF GatesOK, GatesOf
      <4>3. ASSUME NEW irq \in gates'
            PROVE  \E k \in 1 .. Len(new) : new[k].initialized /\ new[k].bus = "ps2" /\ new[k].irq = irq
        <5>1. CASE irq \in gates
          <6>1. PICK k \in 1 .. Len(devices) :
                  devices[k].initialized /\ devices[k].bus = "ps2" /\ devices[k].irq = irq
            BY <1>2, <5>1 DEF GatesOK
          <6>2. k # place /\ new[k] = devices[k]
            BY <3>3, <3>4, <6>1
          <6> QED BY <3>4, <6>1, <6>2
        <5>2. CASE irq \in GatesOf(d)
          <6>1. d.drv = "ps2" /\ irq = d.irq
            BY <5>2 DEF GatesOf
          <6>2. new[place] = n
            BY <1>3, <3>4
          <6> QED BY <1>3, <3>2, <3>4, <6>1, <6>2
        <5> QED BY <4>1, <5>1, <5>2
      <4> QED BY <4>2, <4>3 DEF GatesOK
    <3> QED BY <1>1, <3>4, <3>5, <3>8, <3>9, <3>10
  <2> QED BY <2>2, <2>3, <2>4
<1> QED BY <1>7, <1>8 DEF device_manager_init_all

(* What kmain finds by name is the first working device of the driver.     *)
LEMMA PickFirst ==
  ASSUME DeviceInv, NEW name, NEW x,
         \A k \in 1 .. Len(devices) :
           devices[k].name = name /\ devices[k].initialized <=> devices[k].initialized /\ devices[k].drv = x,
         \A j, k \in 1 .. Len(devices) :
           devices[j].name = name /\ devices[k].name = name /\ devices[k].initialized => devices[j].initialized
  PROVE  Pick(name) = FirstWorking(x)
<1> DEFINE A == {k \in DOMAIN devices : devices[k].name = name}
           B == {k \in DOMAIN devices : devices[k].initialized /\ devices[k].drv = x}
<1>0. DOMAIN devices = 1 .. Len(devices) /\ Len(devices) \in Nat
  BY DEF DeviceInv, TableOK
<1>1. A \in SUBSET Nat /\ B \in SUBSET Nat /\ FindByName(devices, name) = First(A) /\ FirstWorking(x) = First(B)
  BY <1>0 DEF FindByName, FirstWorking
<1>2. A \subseteq 1 .. Len(devices) /\ B \subseteq A
  BY <1>0
<1>3. \A k \in A : devices[k].name = name
  BY <1>0
<1>4. \A k \in A : devices[k].initialized => k \in B
  BY <1>0
<1>5. \A k \in B : devices[k].initialized
  BY <1>0
<1> HIDE DEF A, B
<1>6. CASE B = {}
  <2>1. A # {} => ~devices[First(A)].initialized
    BY <1>1, <1>4, <1>6, FirstMeans
  <2>2. A = {} => First(A) = NULL
    BY <1>1, FirstMeans
  <2>3. First(B) = NULL
    BY <1>1, <1>6, FirstMeans
  <2> QED BY <1>1, <2>1, <2>2, <2>3 DEF Pick
<1>7. CASE B # {}
  <2>1. PICK m \in B : TRUE
    BY <1>7
  <2>2. m \in A /\ devices[m].initialized
    BY <1>2, <1>5, <2>1
  <2>3. A # {} /\ First(A) \in A /\ First(A) # NULL
    BY <1>1, <2>2, FirstMeans, FirstFinds
  <2>4. A = B
    <3>1. \A j \in A : devices[j].initialized
      BY <1>2, <1>3, <2>2
    <3> QED BY <1>2, <1>4, <3>1
  <2>5. devices[First(A)].initialized
    BY <1>5, <2>3, <2>4
  <2> QED BY <1>1, <2>3, <2>4, <2>5 DEF Pick
<1> QED BY <1>6, <1>7

(* The NVMe device kmain finds.                                            *)
LEMMA PickNvme ==
  ASSUME DeviceInv
  PROVE  \/ Pick(<<"nvme", 0>>) = FirstWorking("nvme")
         \/ FirstWorking("nvme") # NULL /\ devices[FirstWorking("nvme")].name = <<"nvme?">>
<1> DEFINE A == {k \in DOMAIN devices : devices[k].name = <<"nvme", 0>>}
           B == {k \in DOMAIN devices : devices[k].initialized /\ devices[k].drv = "nvme"}
<1>0. DOMAIN devices = 1 .. Len(devices) /\ Len(devices) \in Nat
  BY DEF DeviceInv, TableOK
<1>1. /\ A \in SUBSET Nat /\ B \in SUBSET Nat /\ FindByName(devices, <<"nvme", 0>>) = First(A)
      /\ FirstWorking("nvme") = First(B)
  BY <1>0 DEF FindByName, FirstWorking
<1>2. A \subseteq B
  <2> SUFFICES ASSUME NEW k \in 1 .. Len(devices), devices[k].name = <<"nvme", 0>>
               PROVE  devices[k].initialized /\ devices[k].drv = "nvme"
    BY <1>0
  <2>1. Named(devices[k])
    BY DEF DeviceInv, TableOK, DevOK
  <2> QED BY <2>1 DEF Named
<1>3. \A k \in B : k \in 1 .. Len(devices) /\ Up(devices[k])
  BY <1>0 DEF Up
<1>4. \A k \in 1 .. Len(devices) : Up(devices[k]) => k \in B
  BY <1>0 DEF Up
<1>5. \A k \in 1 .. Len(devices) : devices[k].name = <<"nvme", 0>> <=> k \in A
  BY <1>0
<1>6. \A k \in B : devices[k].initialized
  OBVIOUS
<1> HIDE DEF A, B
<1>7. CASE B = {}
  <2>1. A = {} /\ First(A) = NULL /\ First(B) = NULL
    BY <1>1, <1>2, <1>7, FirstMeans
  <2> QED BY <1>1, <2>1 DEF Pick
<1>8. CASE B # {}
  <2>1. First(B) \in B /\ (\A x \in B : First(B) <= x) /\ First(B) # NULL
    BY <1>1, <1>8, FirstMeans, FirstFinds
  <2> DEFINE f == First(B)
  <2> HIDE DEF f
  <2>2. f \in 1 .. Len(devices) /\ Up(devices[f]) /\ \A j \in 1 .. Len(devices) : Up(devices[j]) => f <= j
    BY <1>3, <1>4, <2>1 DEF f
  <2>3. devices[f].name \in {<<"nvme", 0>>, <<"nvme?">>}
    BY <2>2 DEF DeviceInv, NumberOK
  <2>4. CASE devices[f].name = <<"nvme?">>
    BY <1>1, <2>1, <2>4 DEF f
  <2>5. CASE devices[f].name = <<"nvme", 0>>
    <3>1. f \in A
      BY <1>5, <2>2, <2>5
    <3>2. \A x \in A : f <= x
      BY <1>2, <2>1 DEF f
    <3>3. First(A) = f
      BY <1>1, <3>1, <3>2, FirstIs
    <3> QED BY <1>1, <1>6, <2>1, <3>3 DEF Pick, f
  <2> QED BY <2>3, <2>4, <2>5
<1> QED BY <1>7, <1>8

(* Pick finds a place of the table.                                        *)
LEMMA PickType ==
  ASSUME DeviceInv, NEW name
  PROVE  Pick(name) \in Index \cup {NULL}
<1> DEFINE A == {k \in DOMAIN devices : devices[k].name = name}
<1>0. DOMAIN devices = 1 .. Len(devices) /\ Len(devices) \in Nat /\ Len(devices) <= MAX_DEVICES
      /\ MAX_DEVICES \in Nat
  BY DeviceAssumption DEF DeviceInv, TableOK
<1>1. A \in SUBSET Nat /\ A \subseteq Index /\ FindByName(devices, name) = First(A)
  BY <1>0 DEF FindByName, Index
<1> HIDE DEF A
<1>2. First(A) \in Index \cup {NULL}
  BY <1>1, FirstMeans
<1> QED BY <1>1, <1>2 DEF Pick

(* set_globals                                                             *)
LEMMA SetGlobalsStep ==
  ASSUME DeviceInv, set_globals
  PROVE  DeviceInv'
<1>1. /\ hw' = hw /\ pc = "globals" /\ pc' = "scheduler" /\ served' = served /\ place' = place
      /\ drivers' = drivers /\ devices' = devices /\ gates' = gates /\ unmasked' = unmasked
      /\ g_nvme_device_count' = g_nvme_device_count
      /\ globals' = [globals EXCEPT !.serial = Pick(<<"serial">>), !.framebuffer = Pick(<<"fb0">>),
                                    !.nvme = Pick(<<"nvme", 0>>)]
  BY DEF set_globals
<1>2. globals \in Global /\ served = NULL
  BY <1>1 DEF DeviceInv
<1>3. globals' \in Global
  BY <1>1, <1>2, PickType DEF Global
<1>4. /\ globals'.serial = Pick(<<"serial">>) /\ globals'.framebuffer = Pick(<<"fb0">>)
      /\ globals'.nvme = Pick(<<"nvme", 0>>)
  BY <1>1, <1>2 DEF Global
<1>5. \A k \in 1 .. Len(devices) : DevOK(hw, devices[k])
  BY DEF DeviceInv, TableOK
<1>6. Pick(<<"serial">>) = FirstWorking("serial")
  <2>1. ASSUME NEW k \in 1 .. Len(devices)
        PROVE  devices[k].name = <<"serial">> /\ devices[k].initialized
               <=> devices[k].initialized /\ devices[k].drv = "serial"
    <3> DEFINE d == devices[k]
    <3>1. DevOK(hw, d)
      BY <1>5
    <3> HIDE DEF d
    <3>2. /\ d.drv \in Drivers \cup {NULL}
          /\ d.initialized => d.drv # NULL
          /\ d.name = <<"serial">> <=> d.bus = "platform" /\ d.class = "char"
          /\ d.drv # NULL => Driver[d.drv].bus = d.bus /\ Driver[d.drv].class = d.class
      BY <3>1 DEF DevOK, DeviceType, Named, Bound
    <3>3. d.name = <<"serial">> /\ d.initialized <=> d.initialized /\ d.drv = "serial"
      <4>1. ASSUME d.initialized, d.drv = "serial" PROVE d.name = <<"serial">>
        BY <3>2, <4>1, DriverFacts, DeviceAssumption
      <4>2. ASSUME d.initialized, d.name = <<"serial">> PROVE d.drv = "serial"
        BY <3>2, <4>2, DriverFacts
      <4> QED BY <4>1, <4>2
    <3> QED BY <3>3 DEF d
  <2>2. \A j, k \in 1 .. Len(devices) :
          devices[j].name = <<"serial">> /\ devices[k].name = <<"serial">> => j = k
    BY DEF DeviceInv, TableOK
  <2>3. \A j, k \in 1 .. Len(devices) :
          devices[j].name = <<"serial">> /\ devices[k].name = <<"serial">> /\ devices[k].initialized
          => devices[j].initialized
    BY <2>2
  <2> QED BY <2>1, <2>3, PickFirst
<1>7. Pick(<<"fb0">>) = FirstWorking("framebuffer")
  <2>1. ASSUME NEW k \in 1 .. Len(devices)
        PROVE  devices[k].name = <<"fb0">> <=> devices[k].initialized /\ devices[k].drv = "framebuffer"
    BY <1>5 DEF DevOK, Named
  <2>2. \A k \in 1 .. Len(devices) :
          devices[k].name = <<"fb0">> /\ devices[k].initialized
          <=> devices[k].initialized /\ devices[k].drv = "framebuffer"
    BY <2>1
  <2>3. \A j, k \in 1 .. Len(devices) :
          devices[j].name = <<"fb0">> /\ devices[k].name = <<"fb0">> /\ devices[k].initialized
          => devices[j].initialized
    BY <2>1
  <2> QED BY <2>2, <2>3, PickFirst
<1>8. \A x : FirstWorking(x)' = FirstWorking(x)
  BY <1>1 DEF FirstWorking
<1>9. \/ Pick(<<"nvme", 0>>) = FirstWorking("nvme")
      \/ FirstWorking("nvme") # NULL /\ devices[FirstWorking("nvme")].name = <<"nvme?">>
  BY PickNvme
<1>10. GlobalsFirst'
  BY <1>1, <1>4, <1>6, <1>7, <1>8, <1>9 DEF GlobalsFirst
<1> QED BY <1>1, <1>2, <1>3, <1>10 DEF DeviceInv, Phases

(* scheduler_start                                                         *)
LEMMA StartStep ==
  ASSUME DeviceInv, scheduler_start
  PROVE  DeviceInv'
<1>1. /\ hw' = hw /\ pc = "scheduler" /\ pc' \in {"run", "fault"} /\ served' = served /\ place' = place
      /\ drivers' = drivers /\ devices' = devices /\ gates' = gates /\ unmasked' = unmasked
      /\ g_nvme_device_count' = g_nvme_device_count /\ globals' = globals
  BY DEF scheduler_start
<1>2. GlobalsFirst'
  BY <1>1 DEF DeviceInv, GlobalsFirst, FirstWorking
<1>3. served' = NULL
  BY <1>1 DEF DeviceInv
<1> QED BY <1>1, <1>2, <1>3 DEF DeviceInv, Phases

(* interrupt_dispatch: the first working device on a line with a gate is   *)
(* the PS/2 device.                                                        *)
LEMMA DispatchStep ==
  ASSUME DeviceInv, NEW irq \in IrqLines, interrupt_dispatch(irq)
  PROVE  DeviceInv'
<1>1. /\ hw' = hw /\ pc = "run" /\ pc' \in {"run", "fault"} /\ place' = place
      /\ drivers' = drivers /\ devices' = devices /\ gates' = gates /\ unmasked' = unmasked
      /\ g_nvme_device_count' = g_nvme_device_count /\ globals' = globals
  BY DEF interrupt_dispatch
<1>2. GlobalsFirst'
  BY <1>1 DEF DeviceInv, GlobalsFirst, FirstWorking
<1>3. ReachesOwner'
  <2>1. CASE irq \notin gates
    <3>1. served' = served
      BY <2>1 DEF interrupt_dispatch
    <3> QED BY <1>1, <3>1 DEF DeviceInv, ReachesOwner
  <2>2. CASE irq \in gates
    <3> DEFINE T == {k \in DOMAIN devices : devices[k].irq = irq /\ devices[k].initialized}
               f == First(T)
    <3>0. DOMAIN devices = 1 .. Len(devices) /\ Len(devices) \in Nat
      BY DEF DeviceInv, TableOK
    <3>1. PICK k \in 1 .. Len(devices) :
            devices[k].initialized /\ devices[k].bus = "ps2" /\ devices[k].irq = irq
      BY <2>2 DEF DeviceInv, GatesOK
    <3>2. T \in SUBSET Nat /\ k \in T
      BY <3>0, <3>1
    <3>3. /\ f \in T /\ f <= k /\ f # NULL
      <4> HIDE DEF T
      <4> QED BY <3>2, FirstMeans, FirstFinds
    <3>4. f \in 1 .. Len(devices) /\ devices[f].irq = irq /\ devices[f].initialized
      BY <3>0, <3>3
    <3>5. FindByIrq(devices, irq) = f
      BY DEF FindByIrq
    <3> HIDE DEF f, T
    <3>6. devices[f].bus # "pci"
      <4>1. CASE f = k
        BY <3>1, <4>1
      <4>2. CASE f < k
        BY <3>1, <3>4, <4>2 DEF DeviceInv, TableOK
      <4> QED BY <3>3, <3>4, <4>1, <4>2
    <3> DEFINE d == devices[f]
    <3>7. DevOK(hw, d)
      BY <3>4 DEF DeviceInv, TableOK
    <3> HIDE DEF d
    <3>8. d.irq = irq /\ d.initialized /\ d.bus # "pci"
      BY <3>4, <3>6 DEF d
    <3>9. irq \in {IRQ_KEYBOARD, IRQ_MOUSE} /\ irq \notin {0, IRQ_COM1}
      BY <2>2 DEF DeviceInv, GatesOK, IRQ_KEYBOARD, IRQ_MOUSE, IRQ_COM1
    <3>10. d.bus = "ps2"
      BY <3>7, <3>8, <3>9 DEF DevOK, DeviceType, Wired
    <3>11. d.drv = "ps2"
      BY <3>7, <3>8, <3>10, DriverFacts DEF DevOK, DeviceType, Bound
    <3>12. served' = [irq |-> irq, dev |-> f]
      BY <2>2, <3>3, <3>5, <3>11, DriverFacts DEF interrupt_dispatch, d
    <3>13. served'.dev = f /\ served'.irq = irq
      BY <3>12
    <3>14. devices'[f].drv = "ps2" /\ devices'[f].irq = irq
      BY <1>1, <3>8, <3>11 DEF d
    <3> QED BY <3>3, <3>13, <3>14 DEF ReachesOwner
  <2> QED BY <2>1, <2>2
<1> QED BY <1>1, <1>2, <1>3 DEF DeviceInv, Phases

-----------------------------------------------------------------------------
(* Whatever the machine and whatever fails, DeviceInv holds.               *)
LEMMA DeviceInvStep ==
  ASSUME DeviceInv, [Next]_vars
  PROVE  DeviceInv'
<1>1. CASE device_manager_early_init
  BY <1>1, EarlyInitStep
<1>2. CASE ioapic_init
  BY <1>2, IoapicStep
<1>3. CASE hw_detect_ps2_scan
  BY <1>3, Ps2ScanStep
<1>4. CASE hw_detect_pci_scan
  BY <1>4, PciScanStep
<1>5. CASE register_framebuffers
  BY <1>5, FramebuffersStep
<1>6. CASE device_manager_probe_all
  BY <1>6, ProbeStep
<1>7. CASE PhaseEnds("probe") \/ PhaseEnds("init")
  BY <1>7, PhaseEndsStep
<1>8. CASE device_manager_init_all
  BY <1>8, InitAllStep
<1>9. CASE set_globals
  BY <1>9, SetGlobalsStep
<1>10. CASE scheduler_start
  BY <1>10, StartStep
<1>11. CASE \E irq \in IrqLines : interrupt_dispatch(irq)
  BY <1>11, DispatchStep
<1>12. CASE UNCHANGED vars
  BY <1>12 DEF vars, DeviceInv, GlobalsFirst, FirstWorking, ReachesOwner
<1> QED
  BY <1>1, <1>2, <1>3, <1>4, <1>5, <1>6, <1>7, <1>8, <1>9, <1>10, <1>11, <1>12 DEF Next, Boot

(* An initialised device is bound to the driver of its bus and class, was  *)
(* found by its probe and has its driver's data, on every machine and      *)
(* whichever initialisations fail (device_manager_probe_all,               *)
(* device_manager_init_all).                                               *)
THEOREM InitializedDevicesWork == Spec => []InitializedWorks
<1>1. DeviceInv /\ [Next]_vars => DeviceInv'
  BY DeviceInvStep
<1>2. Init => DeviceInv
  BY InitInv
<1>3. DeviceInv => InitializedWorks
  BY DeviceInvImplies
<1> QED BY <1>1, <1>2, <1>3, PTL DEF Spec

(* The devices kmain picks by name are the first of their drivers that     *)
(* came up, however many failed before them (set_globals of kmain.c).      *)
THEOREM GlobalsAreFirst == Spec => []GlobalsFirst
<1>1. DeviceInv /\ [Next]_vars => DeviceInv'
  BY DeviceInvStep
<1>2. Init => DeviceInv
  BY InitInv
<1>3. DeviceInv => GlobalsFirst
  BY DeviceInvImplies
<1> QED BY <1>1, <1>2, <1>3, PTL DEF Spec

(* An interrupt of the keyboard or the mouse reaches its PS/2 device,      *)
(* whatever numbers PCI functions were given (device_find_by_irq).         *)
THEOREM InterruptsReachOwner == Spec => []ReachesOwner
<1>1. DeviceInv /\ [Next]_vars => DeviceInv'
  BY DeviceInvStep
<1>2. Init => DeviceInv
  BY InitInv
<1>3. DeviceInv => ReachesOwner
  BY DeviceInvImplies
<1> QED BY <1>1, <1>2, <1>3, PTL DEF Spec

(***************************************************************************)
(* Proofs about the clock driver, for any moment at which it is called,    *)
(* any number of updates and any frequencies.                              *)
(*                                                                         *)
(* That two equal passes were not both torn by an update rests on quiet:   *)
(* an update is at least three passes away from the one before.  PassInv   *)
(* says what that leaves of the two passes.  LoopInv counts: the passes    *)
(* begun since the last update are at most two, the second of them ends    *)
(* the loop, and two at most were begun before it.                         *)
(***************************************************************************)
(* The pass that sees moment m in every register.                          *)
Full(m) == [r \in RtcRegister |-> Shows(m, r)]

(* So far the pass has seen moment m.                                      *)
ShownSoFar(m) == \A k \in 1 .. reg - 1 : cur[Registers[k]] = Shows(m, Registers[k])

PassInv ==
  /\ quiet >= 1 => uip = "steady"
  /\ t \in shown /\ shown \subseteq Moment
  /\ rtc_pc \in {"calibrate", "wait"} /\ quiet >= 1 => cur \in {NoPass, Full(t)}
  /\ rtc_pc = "read" /\ quiet >= 1 => ShownSoFar(t)
  /\ rtc_pc = "read" /\ quiet >= 2 => prev \in {NoPass, Full(t)}
  /\ rtc_pc = "read" /\ quiet = 0 => prev = NoPass \/ \E m \in shown : prev = Full(m)
  /\ rtc_pc = "ready" => \E m \in shown : initial_rtc = UnixTime(m)

(* The passes begun since the last update, or at all when none has come.   *)
Clean == IF quiet = PASSES_PER_SECOND THEN passes ELSE quiet

LoopInv ==
  /\ rtc_pc = "calibrate" => attempt <= 2 /\ passes = 0 /\ quiet = PASSES_PER_SECOND
  /\ Clean <= 2 /\ passes <= Clean + 2
  /\ rtc_pc = "wait" => Clean <= 1
  /\ rtc_pc = "wait" /\ Clean = 1 => cur = Full(t)
  /\ rtc_pc = "read" /\ Clean = 2 => prev = Full(t)

ClockInv == ClockTypeOK /\ binary \in BOOLEAN /\ PassInv /\ LoopInv

-----------------------------------------------------------------------------
(* The registers and their numbers.                                        *)

(* There are six registers, each with a name of its own.                   *)
LEMMA RegistersOK ==
  /\ Len(Registers) = 6
  /\ RtcRegister = {"seconds", "minutes", "hours", "year", "dayofmonth", "month"}
  /\ \A k \in 1 .. 6 : Registers[k] \in RtcRegister
  /\ \A r \in RtcRegister : \E k \in 1 .. 6 : r = Registers[k]
  /\ \A j, k \in 1 .. 6 : Registers[j] = Registers[k] => j = k
<1>1. Len(Registers) = 6 /\ DOMAIN Registers = 1 .. 6
  BY DEF Registers
<1>2. /\ Registers[1] = "seconds" /\ Registers[2] = "minutes" /\ Registers[3] = "hours"
      /\ Registers[4] = "year" /\ Registers[5] = "dayofmonth" /\ Registers[6] = "month"
  BY DEF Registers
<1>3. \A k \in 1 .. 6 : k \in {1, 2, 3, 4, 5, 6}
  OBVIOUS
<1>4. RtcRegister = {"seconds", "minutes", "hours", "year", "dayofmonth", "month"}
  BY <1>1, <1>2, <1>3 DEF RtcRegister
<1>5. \A j, k \in 1 .. 6 : Registers[j] = Registers[k] => j = k
  BY <1>2, <1>3
<1> QED BY <1>1, <1>2, <1>3, <1>4, <1>5

(* A register of a moment holds a number of two digits.                    *)
LEMMA FieldRange ==
  ASSUME NEW m \in Moment, NEW r \in RtcRegister
  PROVE  m[r] \in 0 .. 99
<1>1. r \in {"seconds", "minutes", "hours", "year", "dayofmonth", "month"}
  BY RegistersOK
<1> QED BY <1>1 DEF Moment

(* What is shown in BCD is converted back to what it was.                  *)
LEMMA BcdBack ==
  ASSUME NEW v \in 0 .. 99
  PROVE  Bcd(v) \in 0 .. 255 /\ convert_bcd_to_binary(Bcd(v)) = v
<1> DEFINE a == v \div 10
           b == v % 10
<1>1. a \in 0 .. 9 /\ b \in 0 .. 9 /\ v = 10 * a + b
  OBVIOUS
<1>2. Bcd(v) = 16 * a + b
  BY DEF Bcd
<1> HIDE DEF a, b
<1>3. (16 * a + b) \div 16 = a /\ (16 * a + b) % 16 = b
  BY <1>1
<1> QED BY <1>1, <1>2, <1>3 DEF convert_bcd_to_binary

(* A register shows a byte, in either format.                              *)
LEMMA ShowsByte ==
  ASSUME binary \in BOOLEAN, NEW m \in Moment, NEW r \in RtcRegister
  PROVE  Shows(m, r) \in 0 .. 255
<1>1. m[r] \in 0 .. 99
  BY FieldRange
<1>2. CASE binary
  BY <1>1, <1>2 DEF Shows
<1>3. CASE ~binary
  <2>1. Shows(m, r) = Bcd(m[r])
    BY <1>3 DEF Shows
  <2>2. Bcd(m[r]) \in 0 .. 255
    BY <1>1, BcdBack
  <2> QED BY <2>1, <2>2
<1> QED BY <1>2, <1>3

(* A full pass over moment m is converted to moment m.                     *)
LEMMA ConvertedFull ==
  ASSUME binary \in BOOLEAN, NEW m \in Moment
  PROVE  UnixTime(Converted(Full(m))) = UnixTime(m)
<1>1. \A r \in RtcRegister : Converted(Full(m))[r] = m[r]
  <2> TAKE r \in RtcRegister
  <2>1. m[r] \in 0 .. 99 /\ Full(m)[r] = Shows(m, r)
    BY FieldRange DEF Full
  <2>2. CASE binary
    BY <2>1, <2>2 DEF Converted, Shows
  <2>3. CASE ~binary
    <3>1. Converted(Full(m))[r] = convert_bcd_to_binary(Bcd(m[r]))
      BY <2>1, <2>3 DEF Converted, Shows
    <3> QED BY <2>1, <3>1, BcdBack
  <2> QED BY <2>2, <2>3
<1>2. {"seconds", "minutes", "hours", "year", "dayofmonth", "month"} \subseteq RtcRegister
  BY RegistersOK
<1> QED BY <1>1, <1>2 DEF UnixTime

(* The seconds the driver adds up are a number, and the calendar's but for *)
(* the day ahead.                                                          *)
LEMMA UnixTimeIsEpoch ==
  ASSUME NEW m \in Moment
  PROVE  UnixTime(m) \in Nat /\ UnixTime(m) = Epoch(m) + AheadBy(m)
<1>1. /\ m.year \in 0 .. 99 /\ m.month \in 1 .. 12 /\ m.dayofmonth \in 1 .. 31
      /\ m.hours \in Nat /\ m.minutes \in Nat /\ m.seconds \in Nat
  BY DEF Moment
<1>2. DaysAhead(m.month, m.year) \in 0 .. 1
  <2>1. CASE IsLeap(m.year) /\ m.month <= 2
    BY <2>1 DEF DaysAhead
  <2>2. CASE ~(IsLeap(m.year) /\ m.month <= 2)
    BY <2>2 DEF DaysAhead
  <2> QED BY <2>1, <2>2
<1>3. DaysSinceEpoch(m.year) \in Nat
  <2>1. \A y \in 0 .. 99 : 2000 + y - 1970 \in Nat /\ 2000 + y - 1970 >= 30
    OBVIOUS
  <2>2. \A n \in Nat : n >= 30 =>
          n * 365 - 1 + ((n \div 4) + IF n % 4 > 1 THEN 1 ELSE 0) \in Nat
    OBVIOUS
  <2>3. DaysSinceEpoch(m.year) =
          (2000 + m.year - 1970) * 365 - 1
            + (((2000 + m.year - 1970) \div 4) + IF (2000 + m.year - 1970) % 4 > 1 THEN 1 ELSE 0)
    BY DEF DaysSinceEpoch
  <2> QED BY <1>1, <2>1, <2>2, <2>3
<1>4. /\ DaysThisYear[m.month] \in Nat /\ FirstOfMonth(m.month, m.year) \in Nat
      /\ DaysSinceEpoch(m.year) + DaysThisYear[m.month] + 1 =
           FirstOfMonth(m.month, m.year) + DaysAhead(m.month, m.year)
  BY <1>1, CalendarAssumption
<1>5. \A a, b, c, d, e \in Nat, g \in 1 .. 31, h, mi, se \in Nat : a + b + 1 = c + d =>
        /\ 86400 * (a + b + g) + 3600 * h + 60 * mi + se \in Nat
        /\ 86400 * (a + b + g) + 3600 * h + 60 * mi + se
             = (86400 * (c + g - 1) + 3600 * h + 60 * mi + se) + 86400 * d
  OBVIOUS
<1>6. DaysAhead(m.month, m.year) \in Nat
  BY <1>2
<1> QED BY <1>1, <1>3, <1>4, <1>5, <1>6 DEF UnixTime, Epoch, AheadBy

(* A second later the clock still shows a moment.                          *)
LEMMA LaterIsMoment ==
  ASSUME NEW m \in Moment
  PROVE  Later(m) \in Moment
<1>1. /\ m.seconds \in 0 .. 59 /\ m.minutes \in 0 .. 59 /\ m.hours \in 0 .. 23
      /\ m.year \in 0 .. 99 /\ m.dayofmonth \in 1 .. 31 /\ m.month \in 1 .. 12
  BY DEF Moment
<1>2. DaysIn(m.month, m.year) \in 28 .. 31
  BY DEF DaysIn
<1>3. \A n \in 28 .. 31, x \in 1 .. 31 : (x % n) + 1 \in 1 .. 31
  OBVIOUS
<1>4. /\ Later(m) = [seconds |-> Later(m).seconds, minutes |-> Later(m).minutes,
                     hours |-> Later(m).hours, year |-> Later(m).year,
                     dayofmonth |-> Later(m).dayofmonth, month |-> Later(m).month]
      /\ Later(m).seconds = (m.seconds + 1) % 60
      /\ Later(m).minutes \in {(m.minutes + 1) % 60, m.minutes}
      /\ Later(m).hours \in {(m.hours + 1) % 24, m.hours}
      /\ Later(m).dayofmonth \in {(m.dayofmonth % DaysIn(m.month, m.year)) + 1, m.dayofmonth}
      /\ Later(m).month \in {(m.month % 12) + 1, m.month}
      /\ Later(m).year \in {(m.year + 1) % 100, m.year}
  BY Zenon DEF Later
<1>5. /\ Later(m).seconds \in 0 .. 59 /\ Later(m).minutes \in 0 .. 59
      /\ Later(m).hours \in 0 .. 23 /\ Later(m).year \in 0 .. 99
      /\ Later(m).month \in 1 .. 12
  BY <1>1, <1>4
<1>6. Later(m).dayofmonth \in 1 .. 31
  BY <1>1, <1>2, <1>3, <1>4
<1> QED BY <1>4, <1>5, <1>6 DEF Moment

-----------------------------------------------------------------------------
(* The passes.                                                             *)

(* What a full pass over moment m looks like does not change.              *)
LEMMA SamePass ==
  ASSUME UNCHANGED binary, NEW m
  PROVE  Full(m)' = Full(m)
BY DEF Full, Shows

(* A read of a register gives a byte, and, while no update goes on, what   *)
(* the clock shows.                                                        *)
LEMMA ReadsByte ==
  ASSUME ClockInv, NEW r \in RtcRegister, NEW v \in Reads(r)
  PROVE  v \in 0 .. 255 /\ (uip = "steady" => v = Shows(t, r))
<1>1. t \in Moment /\ Later(t) \in Moment /\ binary \in BOOLEAN
  BY LaterIsMoment DEF ClockInv, PassInv
<1>2. Shows(t, r) \in 0 .. 255 /\ Shows(Later(t), r) \in 0 .. 255
  BY <1>1, ShowsByte
<1>3. CASE uip = "changing"
  BY <1>2, <1>3 DEF Reads, Garbage
<1>4. CASE uip # "changing"
  BY <1>2, <1>4 DEF Reads
<1> QED BY <1>3, <1>4

(* At its end, a pass that has seen m is the full pass over m.             *)
LEMMA PassEnds ==
  ASSUME ClockInv, reg > Len(Registers), NEW m, ShownSoFar(m)
  PROVE  cur = Full(m)
<1>1. reg = 7
  BY RegistersOK DEF ClockInv, ClockTypeOK
<1>2. \A k \in 1 .. 6 : cur[Registers[k]] = Shows(m, Registers[k])
  BY <1>1 DEF ShownSoFar
<1>3. \A r \in RtcRegister : cur[r] = Shows(m, r)
  BY <1>2, RegistersOK
<1>4. cur = [r \in RtcRegister |-> cur[r]]
  BY DEF ClockInv, ClockTypeOK
<1> QED BY <1>3, <1>4 DEF Full

(* Two equal passes are a full pass over a moment that was shown.          *)
LEMMA EqualPasses ==
  ASSUME ClockInv, EndPass, prev # NoPass /\ Same(prev, cur)
  PROVE  \E m \in shown : cur = Full(m)
<1>1. rtc_pc = "read" /\ reg > Len(Registers) /\ quiet \in Nat
  BY ClockAssumption DEF EndPass, ClockInv, ClockTypeOK
<1>2. CASE quiet >= 1
  <2>1. ShownSoFar(t) /\ t \in shown
    BY <1>1, <1>2 DEF ClockInv, PassInv
  <2> QED BY <1>1, <2>1, PassEnds
<1>3. CASE quiet = 0
  <2>1. \E m \in shown : prev = Full(m)
    BY <1>1, <1>3 DEF ClockInv, PassInv
  <2>2. cur = prev
    <3>1. cur = [r \in RtcRegister |-> cur[r]] /\ prev = [r \in RtcRegister |-> prev[r]]
      BY DEF ClockInv, ClockTypeOK
    <3> QED BY <3>1 DEF Same
  <2> QED BY <2>1, <2>2
<1> QED BY <1>1, <1>2, <1>3

(* What a pass that ends makes of the driver.                              *)
LEMMA PassDecides ==
  ASSUME ClockInv, EndPass
  PROVE  \/ rtc_pc' = "wait" /\ initial_rtc' = initial_rtc
         \/ rtc_pc' = "ready" /\ \E m \in shown : initial_rtc' = UnixTime(m)
<1>1. CASE prev # NoPass /\ Same(prev, cur)
  <2>1. PICK m \in shown : cur = Full(m)
    BY <1>1, EqualPasses
  <2>2. m \in Moment /\ binary \in BOOLEAN
    BY DEF ClockInv, PassInv
  <2>3. rtc_pc' = "ready" /\ initial_rtc' = UnixTime(Converted(cur))
    BY <1>1 DEF EndPass
  <2>4. initial_rtc' = UnixTime(m)
    BY <2>1, <2>2, <2>3, ConvertedFull
  <2> QED BY <2>3, <2>4
<1>2. CASE ~(prev # NoPass /\ Same(prev, cur))
  BY <1>2 DEF EndPass
<1> QED BY <1>1, <1>2

(* Every step keeps the type invariant.                                    *)
LEMMA StepKeepsType ==
  ASSUME ClockInv, [ClockNext]_clockVars
  PROVE  ClockTypeOK' /\ (binary \in BOOLEAN)'
<1> USE ClockAssumption DEF ClockInv, ClockTypeOK
<1>1. CASE Announce
  BY <1>1 DEF Announce, driver
<1>2. CASE Change
  BY <1>2 DEF Change, driver
<1>3. CASE Settle
  BY <1>3 DEF Settle, driver
<1>4. CASE Calibrate
  <2>1. PICK f \in Frequencies :
          /\ rtc_pc = "calibrate" /\ tsc_frequency' = f /\ attempt' = attempt + 1
          /\ rtc_pc' = IF Plausible(f) THEN "wait"
                   ELSE IF GivesUp(attempt) THEN "failed" ELSE "calibrate"
          /\ UNCHANGED <<clock, binary, quiet, reg, cur, prev, passes, initial_rtc>>
    BY <1>4 DEF Calibrate
  <2>2. rtc_pc' \in {"wait", "failed", "calibrate"}
    BY <2>1
  <2>3. attempt' \in 0 .. 3
    BY <2>1 DEF LoopInv
  <2>4. tsc_frequency' \in Nat
    BY <2>1
  <2> QED BY <2>1, <2>2, <2>3, <2>4 DEF clock
<1>5. CASE BeginPass
  <2>1. NoPass \in [RtcRegister -> (0 .. 255) \cup {NONE}]
    BY DEF NoPass
  <2> QED BY <1>5, <2>1 DEF BeginPass, LastPass, clock
<1>6. CASE read_rtc_register
  <2>1. Len(Registers) = 6 /\ Registers[reg] \in RtcRegister
    BY <1>6, RegistersOK DEF read_rtc_register
  <2>2. PICK v \in Reads(Registers[reg]) : cur' = [cur EXCEPT ![Registers[reg]] = v]
    BY <1>6 DEF read_rtc_register
  <2>3. v \in 0 .. 255
    BY <2>1, ReadsByte
  <2>4. cur' \in [RtcRegister -> (0 .. 255) \cup {NONE}]
    BY <2>1, <2>2, <2>3
  <2>5. reg' \in 1 .. 7
    BY <1>6, <2>1 DEF read_rtc_register
  <2> QED BY <1>6, <2>4, <2>5 DEF read_rtc_register, clock
<1>7. CASE EndPass
  <2>1. \A m \in Moment : UnixTime(m) \in Nat
    BY UnixTimeIsEpoch
  <2>2. initial_rtc' \in Nat /\ rtc_pc' \in {"ready", "wait"}
    <3>1. shown \subseteq Moment
      BY DEF PassInv
    <3> QED BY <1>7, <2>1, <3>1, PassDecides
  <2> QED BY <1>7, <2>2 DEF EndPass, clock
<1>8. CASE Returned \/ UNCHANGED clockVars
  BY <1>8 DEF Returned, clockVars, clock, driver
<1> QED BY <1>1, <1>2, <1>3, <1>4, <1>5, <1>6, <1>7, <1>8
        DEF ClockNext, Hardware, ReadClock

(* Every step keeps what is known of the two passes.  Only the update      *)
(* itself changes what the clock shows, and then quiet is 0.               *)
LEMMA StepKeepsPasses ==
  ASSUME ClockInv, [ClockNext]_clockVars
  PROVE  PassInv'
<1> USE DEF ClockInv
<1>1. CASE Announce
  <2>1. /\ quiet >= 2 /\ quiet' = 0 /\ rtc_pc \in {"wait", "read"}
        /\ UNCHANGED <<t, binary, shown, rtc_pc, reg, cur, prev, initial_rtc>>
    BY <1>1, ClockAssumption DEF Announce, driver, ClockTypeOK
  <2>2. rtc_pc = "read" => prev = NoPass \/ \E m \in shown : prev = Full(m)
    BY <2>1 DEF PassInv
  <2>3. \A m : Full(m)' = Full(m)
    BY <2>1, SamePass
  <2> QED BY <2>1, <2>2, <2>3 DEF PassInv
<1>2. CASE Change
  <2>1. /\ quiet = 0
        /\ UNCHANGED <<t, binary, quiet, shown, rtc_pc, reg, cur, prev, initial_rtc>>
    BY <1>2, ClockAssumption DEF Change, driver, ClockTypeOK, PassInv
  <2>2. \A m : Full(m)' = Full(m)
    BY <2>1, SamePass
  <2> QED BY <2>1, <2>2 DEF PassInv
<1>3. CASE Settle
  <2>1. /\ quiet = 0 /\ t' = Later(t) /\ shown' = shown \cup {Later(t)}
        /\ UNCHANGED <<binary, quiet, rtc_pc, reg, cur, prev, initial_rtc>>
    BY <1>3, ClockAssumption DEF Settle, driver, ClockTypeOK, PassInv
  <2>2. \A m : Full(m)' = Full(m)
    BY <2>1, SamePass
  <2>3. Later(t) \in Moment
    BY LaterIsMoment DEF PassInv
  <2> QED BY <2>1, <2>2, <2>3 DEF PassInv
<1>4. CASE Calibrate
  <2>1. /\ rtc_pc = "calibrate" /\ rtc_pc' \in {"calibrate", "wait", "failed"}
        /\ UNCHANGED <<t, binary, uip, quiet, shown, cur, prev>>
    BY <1>4 DEF Calibrate, clock
  <2>2. Full(t)' = Full(t)
    BY <2>1 DEF Full, Shows
  <2> QED BY <2>1, <2>2 DEF PassInv
<1>5. CASE BeginPass
  <2>1. /\ rtc_pc = "wait" /\ rtc_pc' = "read" /\ uip = "steady" /\ reg' = 1
        /\ prev' = cur /\ quiet' = IF quiet < PASSES_PER_SECOND THEN quiet + 1 ELSE quiet
        /\ UNCHANGED <<t, binary, uip, shown>>
    BY <1>5 DEF BeginPass, LastPass, clock
  <2>2. quiet' >= 1 /\ (quiet' >= 2 => quiet >= 1)
    BY <2>1, ClockAssumption DEF ClockTypeOK
  <2>3. Full(t)' = Full(t)
    BY <2>1 DEF Full, Shows
  <2>4. quiet' >= 2 => prev' \in {NoPass, Full(t)}
    BY <2>1, <2>2 DEF PassInv
  <2>5. ShownSoFar(t)'
    BY <2>1 DEF ShownSoFar
  <2> QED BY <2>1, <2>2, <2>3, <2>4, <2>5 DEF PassInv
<1>6. CASE read_rtc_register
  <2>1. /\ rtc_pc = "read" /\ reg \in 1 .. 6 /\ reg' = reg + 1
        /\ UNCHANGED <<t, binary, uip, quiet, shown, rtc_pc, prev>>
    BY <1>6, RegistersOK DEF read_rtc_register, clock, ClockTypeOK
  <2>2. \A m : Full(m)' = Full(m)
    BY <2>1, SamePass
  <2>3. quiet >= 1 => ShownSoFar(t)'
    <3> SUFFICES ASSUME quiet >= 1, NEW k \in 1 .. reg
                 PROVE  cur'[Registers[k]] = Shows(t, Registers[k])
      BY <2>1 DEF ShownSoFar, Shows
    <3>1. PICK v \in Reads(Registers[reg]) : cur' = [cur EXCEPT ![Registers[reg]] = v]
      BY <1>6 DEF read_rtc_register
    <3>2. v = Shows(t, Registers[reg])
      BY <2>1, ReadsByte, RegistersOK DEF PassInv
    <3>3. Registers[reg] \in RtcRegister /\ Registers[k] \in RtcRegister
      BY <2>1, RegistersOK
    <3>4. cur'[Registers[k]] = IF Registers[k] = Registers[reg] THEN v ELSE cur[Registers[k]]
      BY <3>1, <3>3 DEF ClockTypeOK
    <3>5. CASE k = reg
      BY <3>2, <3>4, <3>5
    <3>6. CASE k # reg
      <4>1. Registers[k] # Registers[reg]
        BY <2>1, <3>6, RegistersOK
      <4>2. cur[Registers[k]] = Shows(t, Registers[k])
        BY <2>1, <3>6 DEF PassInv, ShownSoFar
      <4> QED BY <3>4, <4>1, <4>2
    <3> QED BY <3>5, <3>6
  <2>4. t' = t /\ prev' = prev /\ Full(t)' = Full(t)
    BY <2>1 DEF Full, Shows
  <2> QED BY <2>1, <2>2, <2>3, <2>4 DEF PassInv
<1>7. CASE EndPass
  <2>1. /\ rtc_pc = "read" /\ reg > Len(Registers)
        /\ UNCHANGED <<t, binary, uip, quiet, shown, cur, prev>>
    BY <1>7 DEF EndPass, clock
  <2>2. Full(t)' = Full(t)
    BY <2>1 DEF Full, Shows
  <2>3. quiet >= 1 => cur = Full(t)
    BY <2>1, PassEnds DEF PassInv
  <2>4. \A m : UnixTime(m)' = UnixTime(m)
    BY DEF UnixTime
  <2>5. CASE rtc_pc' = "wait"
    BY <2>1, <2>2, <2>3, <2>5 DEF PassInv
  <2>6. CASE rtc_pc' = "ready" /\ \E m \in shown : initial_rtc' = UnixTime(m)
    BY <2>1, <2>2, <2>6 DEF PassInv
  <2> QED BY <1>7, <2>5, <2>6, PassDecides
<1>8. CASE Returned \/ UNCHANGED clockVars
  <2>1. UNCHANGED <<t, binary, uip, quiet, shown, rtc_pc, reg, cur, prev, initial_rtc>>
    BY <1>8 DEF Returned, clockVars, clock, driver
  <2> QED BY <2>1 DEF PassInv, Full, ShownSoFar, Shows, UnixTime
<1> QED BY <1>1, <1>2, <1>3, <1>4, <1>5, <1>6, <1>7, <1>8
        DEF ClockNext, Hardware, ReadClock

(* A full pass is not the empty one.                                       *)
LEMMA FullIsPass ==
  ASSUME ClockInv
  PROVE  Full(t) # NoPass
<1>1. "seconds" \in RtcRegister
  BY RegistersOK
<1>2. Full(t)["seconds"] \in 0 .. 255 /\ NoPass["seconds"] = NONE
  BY <1>1, ShowsByte DEF ClockInv, PassInv, Full, NoPass
<1> QED BY <1>2, ClockAssumption

(* Every step keeps the count of the passes: an update sets it back when   *)
(* two passes at most were begun, and the second pass after it finds what  *)
(* the first one found.                                                    *)
LEMMA StepKeepsLoop ==
  ASSUME ClockInv, [ClockNext]_clockVars
  PROVE  LoopInv'
<1>1. /\ PASSES_PER_SECOND \in Nat /\ PASSES_PER_SECOND >= 3
      /\ quiet \in 0 .. PASSES_PER_SECOND /\ passes \in Nat /\ Clean \in Nat
      /\ Clean <= 2 /\ passes <= Clean + 2
  BY ClockAssumption DEF ClockInv, ClockTypeOK, LoopInv, Clean
<1>2. CASE Announce
  <2>1. /\ quiet = PASSES_PER_SECOND /\ quiet' = 0 /\ rtc_pc \in {"wait", "read"}
        /\ UNCHANGED <<rtc_pc, passes>>
    BY <1>1, <1>2 DEF Announce, driver
  <2>2. passes <= 2 /\ Clean' = 0
    BY <1>1, <2>1 DEF Clean
  <2> QED BY <1>1, <2>1, <2>2 DEF LoopInv
<1>3. CASE Change
  <2>1. UNCHANGED <<t, binary, quiet, rtc_pc, cur, prev, passes, attempt>>
    BY <1>3 DEF Change, driver
  <2> QED BY <2>1 DEF ClockInv, LoopInv, Clean, Full, Shows
<1>4. CASE Settle
  <2>1. quiet = 0 /\ UNCHANGED <<quiet, rtc_pc, passes, attempt>>
    BY <1>1, <1>4 DEF Settle, driver, ClockInv, PassInv
  <2>2. Clean = 0 /\ Clean' = 0
    BY <1>1, <2>1 DEF Clean
  <2> QED BY <1>1, <2>1, <2>2 DEF ClockInv, LoopInv
<1>5. CASE Calibrate
  <2>1. /\ rtc_pc = "calibrate" /\ attempt' = attempt + 1
        /\ rtc_pc' \in {"wait", "failed", "calibrate"}
        /\ rtc_pc' = "calibrate" => ~GivesUp(attempt)
        /\ UNCHANGED <<quiet, passes>>
    BY <1>5 DEF Calibrate
  <2>2. attempt \in 0 .. 2 /\ passes = 0 /\ quiet = PASSES_PER_SECOND
    BY <2>1 DEF ClockInv, ClockTypeOK, LoopInv
  <2>3. Clean' = 0
    BY <2>1, <2>2 DEF Clean
  <2> QED BY <1>1, <2>1, <2>2, <2>3 DEF LoopInv, GivesUp
<1>6. CASE BeginPass
  <2>1. /\ rtc_pc = "wait" /\ rtc_pc' = "read" /\ prev' = cur /\ passes' = passes + 1
        /\ quiet' = IF quiet < PASSES_PER_SECOND THEN quiet + 1 ELSE quiet
        /\ UNCHANGED <<t, binary>>
    BY <1>6 DEF BeginPass, LastPass, clock
  <2>2. Clean <= 1 /\ (Clean = 1 => cur = Full(t))
    BY <2>1 DEF ClockInv, LoopInv
  <2>3. Clean' = Clean + 1 /\ Full(t)' = Full(t)
    BY <1>1, <2>1, <2>2 DEF Clean, Full, Shows
  <2> QED BY <1>1, <2>1, <2>2, <2>3 DEF LoopInv
<1>7. CASE read_rtc_register
  <2>1. rtc_pc = "read" /\ UNCHANGED <<t, binary, quiet, rtc_pc, prev, passes>>
    BY <1>7 DEF read_rtc_register, clock
  <2> QED BY <2>1 DEF ClockInv, LoopInv, Clean, Full, Shows
<1>8. CASE EndPass
  <2>1. /\ rtc_pc = "read" /\ reg > Len(Registers) /\ rtc_pc' \in {"wait", "ready"}
        /\ rtc_pc' = "wait" => ~(prev # NoPass /\ Same(prev, cur))
        /\ UNCHANGED <<t, binary, quiet, passes, cur, prev>>
    BY <1>8 DEF EndPass, clock
  <2>2. Clean >= 1 => cur = Full(t)
    <3>1. Clean >= 1 => quiet >= 1
      BY <1>1 DEF Clean
    <3> QED BY <1>1, <2>1, <3>1, PassEnds DEF ClockInv, PassInv
  <2>3. Clean = 2 => rtc_pc' = "ready"
    <3> HAVE Clean = 2
    <3>1. prev = Full(t) /\ cur = Full(t)
      BY <1>1, <2>1, <2>2 DEF ClockInv, LoopInv
    <3> QED BY <2>1, <3>1, FullIsPass DEF Same
  <2>4. Clean' = Clean /\ Full(t)' = Full(t)
    BY <2>1 DEF Clean, Full, Shows
  <2> QED BY <1>1, <2>1, <2>2, <2>3, <2>4 DEF LoopInv
<1>9. CASE Returned \/ UNCHANGED clockVars
  <2>1. UNCHANGED <<t, binary, quiet, rtc_pc, cur, prev, passes, attempt>>
    BY <1>9 DEF Returned, clockVars, clock, driver
  <2> QED BY <2>1 DEF ClockInv, LoopInv, Clean, Full, Shows
<1> QED BY <1>2, <1>3, <1>4, <1>5, <1>6, <1>7, <1>8, <1>9 DEF ClockNext, Hardware, ReadClock

-----------------------------------------------------------------------------
(* The theorems.                                                           *)

(* The invariant holds at the start.                                       *)
LEMMA InitClockInv == ClockInit => ClockInv
<1> SUFFICES ASSUME ClockInit PROVE ClockInv
  OBVIOUS
<1> USE ClockAssumption DEF ClockInit
<1>1. NoPass \in [RtcRegister -> (0 .. 255) \cup {NONE}]
  BY DEF NoPass
<1>2. ClockTypeOK
  <2>1. /\ cur \in [RtcRegister -> (0 .. 255) \cup {NONE}]
        /\ prev \in [RtcRegister -> (0 .. 255) \cup {NONE}]
    BY <1>1
  <2>2. /\ uip = "steady" /\ quiet = PASSES_PER_SECOND /\ rtc_pc = "calibrate" /\ reg = 1
        /\ passes = 0 /\ attempt = 0 /\ tsc_frequency = 0 /\ initial_rtc = 0
        /\ quiet \in 0 .. PASSES_PER_SECOND
    OBVIOUS
  <2> QED BY ONLY <2>1, <2>2 DEF ClockTypeOK
<1>3. PassInv
  BY DEF PassInv
<1>4. LoopInv
  BY DEF LoopInv, Clean
<1> QED BY <1>2, <1>3, <1>4 DEF ClockInv

(* Whatever the updates do, the passes and their number stay as ClockInv   *)
(* says.                                                                   *)
THEOREM ClockInvariance == ClockSpec => []ClockInv
<1>1. ClockInv /\ [ClockNext]_clockVars => ClockInv'
  BY StepKeepsType, StepKeepsPasses, StepKeepsLoop DEF ClockInv
<1> QED BY InitClockInv, <1>1, PTL DEF ClockSpec

(* The time that rtc_init takes is one the clock showed during the call:   *)
(* two equal passes (drv_rtc.c, the do-while loop) are never both torn.    *)
THEOREM TimeIsOneShown == ClockSpec => []TimeWasShown
<1>1. ClockInv => TimeWasShown
  <2> SUFFICES ASSUME ClockInv PROVE TimeWasShown
    OBVIOUS
  <2>1. ASSUME rtc_pc = "ready" PROVE \E m \in shown : initial_rtc = Epoch(m) + AheadBy(m)
    <3>1. PICK m \in shown : initial_rtc = UnixTime(m)
      BY <2>1 DEF ClockInv, PassInv
    <3>2. m \in Moment
      BY DEF ClockInv, PassInv
    <3> QED BY <3>1, <3>2, UnixTimeIsEpoch
  <2> QED BY <2>1 DEF TimeWasShown, ClockInv
<1> QED BY <1>1, ClockInvariance, PTL

(* The loop of read_rtc_time makes four passes at most (drv_rtc.c:207-225),*)
(* if a second is long enough for three.                                   *)
THEOREM PassesAreFew == ClockSpec => []FourPasses
<1>1. ClockInv => FourPasses
  BY ClockAssumption DEF ClockInv, ClockTypeOK, LoopInv, Clean, FourPasses
<1> QED BY <1>1, ClockInvariance, PTL

(***************************************************************************)
(* Proofs about the PS/2 driver, for any keys of the table, any bytes      *)
(* behind it, any packets and any number of events.                        *)
(*                                                                         *)
(* LineInv: at most one line has a request pending, the one whose byte is  *)
(* in the buffer.  TalkInv: while the driver talks to the devices, the     *)
(* bytes on their way are those it is about to read.  TypedInv: the bytes  *)
(* of the keyboard on their way lead from what the driver remembers, byte  *)
(* by byte, to what the keys that are held mean.                           *)
(***************************************************************************)
Ps2Hardware == {KEYBOARD, MOUSE}
Held == [from : Ps2Hardware, byte : Byte]

(* The bytes of a device that nobody has read yet.                         *)
InBuffer(d) == IF obf # EMPTY /\ obf.from = d THEN <<obf.byte>> ELSE <<>>
Pending(d) == InBuffer(d) \o queue[d]

LineInv ==
  /\ obf \in Held \cup {EMPTY} /\ queue \in [Ps2Hardware -> Seq(Byte)]
  /\ mouse \in BOOLEAN /\ set \in {1, 2}
  /\ irr = {} \/ (obf # EMPTY /\ irr = {obf.from})
  /\ ps2_pc = "init" => open_lines = {}
  /\ ps2_pc # "init" => KEYBOARD \in open_lines
  /\ reads > 0 => step <= 4
  /\ stray = FALSE

(* How many bytes are on their way while `reads' are still to be read.     *)
Answering(d) == d = KEYBOARD \/ mouse
TalkInv ==
  ps2_pc = "init" /\ late = 0 =>
    /\ step = 5 => reads = 0 /\ scancode_set = set
    /\ reads = 0 => \A d \in Ps2Hardware : Pending(d) = <<>>
    /\ reads > 0 =>
         \A d \in Ps2Hardware :
           Len(Pending(d)) = IF d = Commands[step].to /\ Answering(d) THEN reads ELSE 0
    /\ step = 4 /\ reads > 0 => Pending(KEYBOARD)[Len(Pending(KEYBOARD))] = set

(***************************************************************************)
(* What a byte does to a driver in state s that uses set sc.  A code that  *)
(* is looked up behind the table leaves the modifiers alone here; then the *)
(* driver itself may only let go of one.                                   *)
(***************************************************************************)
CodeOf(sc, s, b) ==
  IF sc = 1 THEN b % 128 ELSE IF s.release THEN us_set2_to_set1(b) ELSE us_set2_to_set1(b % 128)
UpOf(sc, s, b) == (sc = 2 /\ s.release) \/ b >= 128

Taken(s, c, up) ==
  [shift |-> IF IsShift(c) THEN ~up ELSE s.shift,
   ctrl |-> IF IsCtrl(c) THEN ~up ELSE s.ctrl,
   alt |-> IF IsAlt(c) THEN ~up ELSE s.alt,
   caps |-> IF IsCaps(c) /\ ~up THEN ~s.caps ELSE s.caps,
   release |-> FALSE,
   out |-> IF ~up /\ c \in HasCharacter THEN Append(s.out, <<c, Column(s.shift, s.caps)>>) ELSE s.out]

Released(s, r) ==
  [shift |-> s.shift, ctrl |-> s.ctrl, alt |-> s.alt, caps |-> s.caps, release |-> r, out |-> s.out]

After(sc, s, b) ==
  IF sc = 2 /\ b = \hF0 THEN Released(s, TRUE)
  ELSE IF sc = 2 /\ s.release /\ b >= 128 THEN Released(s, FALSE)
  ELSE IF UpOf(sc, s, b) THEN Taken(s, CodeOf(sc, s, b), TRUE)
  ELSE Taken(s, CodeOf(sc, s, b), FALSE)

(* The bytes p lead from state a to state b, through the states tr.        *)
Run(sc, a, p, b, tr) ==
  /\ tr[0] = a /\ tr[Len(p)] = b
  /\ \A i \in 1 .. Len(p) : tr[i] = After(sc, tr[i - 1], p[i])
Leads(sc, a, p, b) == \E tr : Run(sc, a, p, b, tr)

(* What has been typed and is held, as a state of the driver.              *)
Goal ==
  [shift |-> Shifted, ctrl |-> down \cap CtrlKeys # {}, alt |-> "lalt" \in down,
   caps |-> ref.caps, release |-> FALSE, out |-> ref.out]

(* The state g is that, unless keys were merged; even then, no modifier is *)
(* on in g without a key that is held.                                     *)
Means(g) ==
  /\ g = Released(g, FALSE)
  /\ g.shift \in BOOLEAN /\ g.ctrl \in BOOLEAN /\ g.alt \in BOOLEAN /\ g.caps \in BOOLEAN
  /\ (g.shift => Shifted) /\ (g.ctrl => down \cap CtrlKeys # {}) /\ (g.alt => "lalt" \in down)
  /\ ~merged => g = Goal

(* The driver is in state s; once it has left the table, it may have let   *)
(* go of modifiers.                                                        *)
Follows(s) ==
  /\ s.shift \in BOOLEAN /\ s.ctrl \in BOOLEAN /\ s.alt \in BOOLEAN /\ s.caps \in BOOLEAN
  /\ release_next = s.release
  /\ (shift_pressed => s.shift) /\ (ctrl_pressed => s.ctrl) /\ (alt_pressed => s.alt)
  /\ ~wild => /\ shift_pressed = s.shift /\ ctrl_pressed = s.ctrl /\ alt_pressed = s.alt
              /\ capslock_on = s.caps /\ out = s.out

(* The driver is in state g, or will be once the bytes are taken.          *)
Reaches(g) ==
  /\ ps2_pc = "init" => Follows(g)
  /\ ps2_pc # "init" => \E s : Follows(s) /\ Leads(set, s, Pending(KEYBOARD), g)

TypedInv ==
  late = 0 =>
    /\ ps2_pc # "init" => scancode_set = set
    /\ \E g : Means(g) /\ Reaches(g)

Ps2Inv == Ps2TypeOK /\ LineInv /\ TalkInv /\ TypedInv

-----------------------------------------------------------------------------
(* Scan codes.                                                             *)

(* The keys, and what us_set2_to_set1 makes of their codes.                *)
LEMMA Table ==
  ASSUME NEW k \in DOMAIN Code, Code[k].two < 128
  PROVE  us_set2_to_set1(Code[k].two) = Code[k].one
<1>1. \A j \in DOMAIN Code : Code[j].two = Code[k].two => Code[j].one = Code[k].one
  BY DEF Code
<1>2. PICK b, c : b = Code[k].two /\ c = Code[k].one
  OBVIOUS
<1>3. k \in {j \in DOMAIN Code : Code[j].two = b}
  BY <1>2
<1>4. PICK j : j = CHOOSE i \in {i \in DOMAIN Code : Code[i].two = b} : TRUE
  OBVIOUS
<1>5. j \in {i \in DOMAIN Code : Code[i].two = b}
  BY <1>3, <1>4
<1>6. Code[j].one = c
  BY <1>1, <1>2, <1>5
<1>7. us_set2_to_set1(b) = Code[j].one
  <2>1. b # \h01 /\ b # \h03 /\ b # \h1D /\ b # \h1E /\ b # \h2A /\ b # \h36 /\ b # \h3A
        /\ b # \h41 /\ b # \h7A
    BY <1>2 DEF Code
  <2>2. {i \in DOMAIN Code : Code[i].two = b} # {}
    BY <1>3
  <2>3. us_set2_to_set1(b) =
          Code[CHOOSE i \in {i \in DOMAIN Code : Code[i].two = b} : TRUE].one
    BY <2>1, <2>2 DEF us_set2_to_set1
  <2> QED BY <1>4, <2>3
<1> QED BY <1>2, <1>6, <1>7

(* Behind the prefix E0 there is no key, and F7 is not itself in set 2.    *)
LEMMA TableRest == us_set2_to_set1(\h60) = 0 /\ us_set2_to_set1(3) = \h3F
<1>1. {k \in DOMAIN Code : Code[k].two = \h60} = {} /\ {k \in DOMAIN Code : Code[k].two = 3} = {}
  BY DEF Code
<1> QED BY <1>1 DEF us_set2_to_set1

(* What the codes of the keys mean.                                        *)
LEMMA Codes ==
  ASSUME NEW k \in DOMAIN Code
  PROVE  /\ Code[k].one \in 1 .. 127
         /\ IF k = "f7" THEN Code[k].two = \h83 ELSE Code[k].two \in 1 .. 127
         /\ IsShift(Code[k].one) <=> k \in ShiftKeys
         /\ IsCtrl(Code[k].one) <=> k \in CtrlKeys
         /\ IsAlt(Code[k].one) <=> k = "lalt"
         /\ IsCaps(Code[k].one) <=> k = "caps"
         /\ Code[k].one \in HasCharacter <=> k = "a"
<1>1. k \in {"lshift", "rshift", "lctrl", "rctrl", "lalt", "caps", "a", "f7"}
  BY DEF Code
<1>2. Code[k].one \in 1 .. 127
  BY <1>1 DEF Code
<1>3. IF k = "f7" THEN Code[k].two = \h83 ELSE Code[k].two \in 1 .. 127
  BY <1>1 DEF Code
<1>4. /\ IsShift(Code[k].one) <=> k \in ShiftKeys
      /\ IsCtrl(Code[k].one) <=> k \in CtrlKeys
  BY <1>1 DEF Code, IsShift, IsCtrl, ShiftKeys, CtrlKeys
<1>5. /\ IsAlt(Code[k].one) <=> k = "lalt"
      /\ IsCaps(Code[k].one) <=> k = "caps"
      /\ Code[k].one \in HasCharacter <=> k = "a"
  BY <1>1 DEF Code, IsAlt, IsCaps, HasCharacter
<1> QED BY <1>2, <1>3, <1>4, <1>5

-----------------------------------------------------------------------------
(* Bytes that lead from one state to another.                              *)

(* No byte leads nowhere.                                                  *)
LEMMA LeadsNowhere ==
  ASSUME NEW sc, NEW a, NEW b
  PROVE  Leads(sc, a, <<>>, b) <=> a = b
<1>1. ASSUME Leads(sc, a, <<>>, b) PROVE a = b
  BY <1>1 DEF Leads, Run
<1>2. ASSUME a = b PROVE Leads(sc, a, <<>>, b)
  <2> DEFINE tr == [i \in {0} |-> a]
  <2>1. Run(sc, a, <<>>, b, tr)
    BY <1>2 DEF Run
  <2> QED BY <2>1 DEF Leads
<1> QED BY <1>1, <1>2

(* One more byte leads one state on.                                       *)
LEMMA LeadsOn ==
  ASSUME NEW sc, NEW a, NEW p \in Seq(Byte), NEW b, NEW x \in Byte, Leads(sc, a, p, b)
  PROVE  Leads(sc, a, p \o <<x>>, After(sc, b, x))
<1>1. PICK old : Run(sc, a, p, b, old)
  BY DEF Leads
<1> DEFINE n == Len(p)
           q == p \o <<x>>
           tr == [i \in 0 .. n + 1 |-> IF i = n + 1 THEN After(sc, b, x) ELSE old[i]]
<1>2. n \in Nat /\ Len(q) = n + 1 /\ q[n + 1] = x /\ \A i \in 1 .. n : q[i] = p[i]
  OBVIOUS
<1>3. tr[0] = a /\ tr[n + 1] = After(sc, b, x) /\ tr[n] = b
  BY <1>1, <1>2 DEF Run
<1>4. ASSUME NEW i \in 1 .. n + 1 PROVE tr[i] = After(sc, tr[i - 1], q[i])
  <2>1. CASE i = n + 1
    BY <1>2, <1>3, <2>1
  <2>2. CASE i # n + 1
    <3>1. i \in 1 .. n /\ i - 1 \in 0 .. n + 1 /\ i - 1 # n + 1
      BY <1>2, <2>2
    <3>2. tr[i] = old[i] /\ tr[i - 1] = old[i - 1] /\ q[i] = p[i]
      BY <1>2, <3>1
    <3> QED BY <1>1, <3>1, <3>2 DEF Run
  <2> QED BY <2>1, <2>2
<1>5. Run(sc, a, q, After(sc, b, x), tr)
  BY <1>2, <1>3, <1>4 DEF Run
<1> QED BY <1>5 DEF Leads

(* The first byte leads one state on, the others the rest of the way.      *)
LEMMA LeadsFrom ==
  ASSUME NEW sc, NEW a, NEW p \in Seq(Byte), NEW b, NEW x \in Byte, Leads(sc, a, <<x>> \o p, b)
  PROVE  Leads(sc, After(sc, a, x), p, b)
<1> DEFINE n == Len(p)
           q == <<x>> \o p
<1>1. PICK old : Run(sc, a, q, b, old)
  BY DEF Leads
<1> DEFINE tr == [i \in 0 .. n |-> old[i + 1]]
<1>2. n \in Nat /\ Len(q) = n + 1 /\ q[1] = x /\ \A i \in 1 .. n : q[i + 1] = p[i]
  OBVIOUS
<1>3. tr[0] = After(sc, a, x) /\ tr[n] = b
  BY <1>1, <1>2 DEF Run
<1>4. ASSUME NEW i \in 1 .. n PROVE tr[i] = After(sc, tr[i - 1], p[i])
  <2>1. tr[i] = old[i + 1] /\ tr[i - 1] = old[i]
    BY <1>2
  <2>2. i + 1 \in 1 .. Len(q) /\ (i + 1) - 1 = i
    BY <1>2
  <2> QED BY <1>1, <1>2, <2>1, <2>2 DEF Run
<1>5. Run(sc, After(sc, a, x), p, b, tr)
  BY <1>3, <1>4 DEF Run
<1> QED BY <1>5 DEF Leads

-----------------------------------------------------------------------------
(* What the bytes of a key do.                                             *)

(* The state in which everything is as in s, with key k just pressed or    *)
(* released.                                                               *)
WithKey(s, k, press) ==
  [shift |-> IF k \in ShiftKeys THEN press ELSE s.shift,
   ctrl |-> IF k \in CtrlKeys THEN press ELSE s.ctrl,
   alt |-> IF k = "lalt" THEN press ELSE s.alt,
   caps |-> IF k = "caps" /\ press THEN ~s.caps ELSE s.caps,
   release |-> FALSE,
   out |-> IF press /\ k = "a"
             THEN Append(s.out, <<Code[k].one, IF s.shift # s.caps THEN 1 ELSE 0>>) ELSE s.out]

(* A code of set 1 means its key.                                          *)
LEMMA TakenMeans ==
  ASSUME NEW s, NEW k \in DOMAIN Code
  PROVE  /\ Taken(s, Code[k].one, FALSE) = WithKey(s, k, TRUE)
         /\ Taken(s, Code[k].one, TRUE) = WithKey(s, k, FALSE)
<1>1. /\ IsShift(Code[k].one) <=> k \in ShiftKeys
      /\ IsCtrl(Code[k].one) <=> k \in CtrlKeys
      /\ IsAlt(Code[k].one) <=> k = "lalt"
      /\ IsCaps(Code[k].one) <=> k = "caps"
      /\ Code[k].one \in HasCharacter <=> k = "a"
  BY Codes
<1>2. Taken(s, Code[k].one, FALSE) = WithKey(s, k, TRUE)
  BY <1>1 DEF Taken, WithKey, Column
<1>3. Taken(s, Code[k].one, TRUE) = WithKey(s, k, FALSE)
  BY <1>1 DEF Taken, WithKey
<1> QED BY <1>2, <1>3

(* Codes that are no key of ours leave the state alone.                    *)
LEMMA NoKey ==
  ASSUME NEW s, s = Released(s, FALSE), NEW c \in {0, \h60, \h3F, \h41}
  PROVE  Taken(s, c, TRUE) = s /\ Taken(s, c, FALSE) = s
<1>1. ~IsShift(c) /\ ~IsCtrl(c) /\ ~IsAlt(c) /\ ~IsCaps(c) /\ c \notin HasCharacter
  BY DEF IsShift, IsCtrl, IsAlt, IsCaps, HasCharacter
<1>2. Taken(s, c, TRUE) = Released(s, FALSE) /\ Taken(s, c, FALSE) = Released(s, FALSE)
  BY <1>1 DEF Taken, Released
<1> QED BY <1>2

(* The prefix E0 alone does nothing.                                       *)
LEMMA AfterE0 ==
  ASSUME NEW sc \in {1, 2}, NEW s, s = Released(s, FALSE)
  PROVE  After(sc, s, \hE0) = s
<1>1. s.release = FALSE /\ ~s.release /\ \hE0 # \hF0 /\ \hE0 >= 128 /\ \hE0 % 128 = \h60
  BY DEF Released
<1>2. CodeOf(sc, s, \hE0) \in {0, \h60} /\ UpOf(sc, s, \hE0)
  BY <1>1, TableRest DEF CodeOf, UpOf
<1>3. After(sc, s, \hE0) = Taken(s, CodeOf(sc, s, \hE0), TRUE)
  BY <1>1, <1>2 DEF After
<1> QED BY <1>2, <1>3, NoKey, ZenonT(40)

(* The last byte of a key that goes down.                                  *)
LEMMA AfterMake ==
  ASSUME NEW sc \in {1, 2}, NEW s, s = Released(s, FALSE), NEW k \in DOMAIN Code
  PROVE  After(sc, s, IF sc = 1 THEN Code[k].one ELSE Code[k].two) = WithKey(s, k, TRUE)
<1>1. s.release = FALSE /\ ~s.release
  BY DEF Released
<1>2. CASE sc = 1
  <2>1. PICK c \in 1 .. 127 : c = Code[k].one
    BY Codes
  <2>2. CodeOf(sc, s, c) = c /\ ~UpOf(sc, s, c)
    BY <1>1, <1>2, <2>1 DEF CodeOf, UpOf
  <2>3. After(sc, s, c) = Taken(s, CodeOf(sc, s, c), FALSE)
    BY <1>1, <1>2, <2>2 DEF After
  <2>4. Taken(s, Code[k].one, FALSE) = WithKey(s, k, TRUE)
    BY TakenMeans
  <2>5. (IF sc = 1 THEN Code[k].one ELSE Code[k].two) = c
    BY <1>2, <2>1
  <2> QED BY <2>1, <2>2, <2>3, <2>4, <2>5, Zenon
<1>3. CASE sc = 2 /\ k # "f7"
  <2>1. PICK c \in 1 .. 127 : c = Code[k].two
    BY <1>3, Codes
  <2>2. CodeOf(sc, s, c) = Code[k].one /\ ~UpOf(sc, s, c)
    BY <1>1, <2>1, <1>3, Table DEF CodeOf, UpOf
  <2>3. c # \hF0
    BY <2>1
  <2>4. After(sc, s, c) = Taken(s, Code[k].one, FALSE)
    BY <1>1, <1>3, <2>2, <2>3 DEF After
  <2>5. Taken(s, Code[k].one, FALSE) = WithKey(s, k, TRUE)
    BY TakenMeans
  <2>6. (IF sc = 1 THEN Code[k].one ELSE Code[k].two) = c
    BY <1>3, <2>1
  <2> QED BY <2>4, <2>5, <2>6, Zenon
<1>4. CASE sc = 2 /\ k = "f7"
  <2>1. Code[k].two = \h83
    BY <1>4, Codes
  <2>2. \h83 % 128 = 3 /\ \h83 # \hF0 /\ \h83 >= 128
    OBVIOUS
  <2>3. CodeOf(sc, s, \h83) = \h3F /\ UpOf(sc, s, \h83)
    BY <1>1, <2>2, <1>4, TableRest DEF CodeOf, UpOf
  <2>4. After(sc, s, \h83) = Taken(s, \h3F, TRUE)
    BY <1>1, <1>4, <2>2, <2>3, ZenonT(40) DEF After
  <2>5. WithKey(s, k, TRUE) = Released(s, FALSE)
    BY <1>4 DEF WithKey, Released, ShiftKeys, CtrlKeys
  <2>6. Taken(s, \h3F, TRUE) = s
    BY NoKey
  <2>7. (IF sc = 1 THEN Code[k].one ELSE Code[k].two) = \h83
    BY <1>4, <2>1
  <2>8. WithKey(s, k, TRUE) = s
    BY <2>5
  <2> QED BY <2>4, <2>6, <2>7, <2>8, ZenonT(40)
<1> QED BY <1>2, <1>3, <1>4

(* The last bytes of a key that goes up.                                   *)
LEMMA AfterBreak ==
  ASSUME NEW s, s = Released(s, FALSE), NEW k \in DOMAIN Code
  PROVE  /\ After(1, s, Code[k].one + 128) = WithKey(s, k, FALSE)
         /\ After(2, After(2, s, \hF0), Code[k].two) = WithKey(s, k, FALSE)
<1>1. After(1, s, Code[k].one + 128) = WithKey(s, k, FALSE)
  <2>1. PICK c \in 1 .. 127 : c = Code[k].one
    BY Codes
  <2>2. (c + 128) % 128 = c /\ c + 128 >= 128
    BY <2>1
  <2>3. s.release = FALSE /\ ~s.release
    BY DEF Released
  <2>4. PICK sc \in {1} : TRUE
    OBVIOUS
  <2>5. CodeOf(sc, s, c + 128) = c /\ UpOf(sc, s, c + 128)
    BY <2>2, <2>3, <2>4 DEF CodeOf, UpOf
  <2>6. After(sc, s, c + 128) = Taken(s, CodeOf(sc, s, c + 128), TRUE)
    BY <2>3, <2>4, <2>5 DEF After
  <2>7. Taken(s, Code[k].one, TRUE) = WithKey(s, k, FALSE)
    BY TakenMeans
  <2>8. sc = 1
    BY <2>4
  <2> QED BY <2>1, <2>5, <2>6, <2>7, <2>8, Zenon
<1>2. PICK r : r = Released(s, TRUE)
  OBVIOUS
<1>3. After(2, s, \hF0) = r
  BY <1>2 DEF After
<1>4. r.release = TRUE /\ r.release /\ WithKey(r, k, FALSE) = WithKey(s, k, FALSE) /\ Released(r, FALSE) = s
  BY <1>2 DEF WithKey, Released
<1>5. CASE k # "f7"
  <2>1. PICK c \in 1 .. 127 : c = Code[k].two
    BY <1>5, Codes
  <2>2. CodeOf(2, r, c) = Code[k].one /\ UpOf(2, r, c)
    BY <1>4, <2>1, Table DEF CodeOf, UpOf
  <2>3. c # \hF0 /\ ~(c >= 128)
    BY <2>1
  <2>4. After(2, r, c) = Taken(r, Code[k].one, TRUE)
    BY <1>4, <2>2, <2>3 DEF After
  <2>5. Taken(r, Code[k].one, TRUE) = WithKey(r, k, FALSE)
    BY TakenMeans
  <2> QED BY <1>1, <1>3, <1>4, <2>1, <2>4, <2>5
<1>6. CASE k = "f7"
  <2>1. Code[k].two = \h83 /\ \h83 # \hF0 /\ \h83 >= 128
    BY <1>6, Codes
  <2>2. After(2, r, \h83) = Released(r, FALSE)
    BY <1>4, <2>1 DEF After
  <2>3. WithKey(s, k, FALSE) = Released(s, FALSE)
    BY <1>6 DEF WithKey, Released, ShiftKeys, CtrlKeys
  <2>4. WithKey(s, k, FALSE) = s
    BY <2>3
  <2>5. Code[k].two = \h83
    BY <2>1
  <2>6. After(2, After(2, s, \hF0), Code[k].two) = After(2, r, \h83)
    BY <1>3, <2>5, Zenon
  <2>7. After(2, r, \h83) = s
    BY <1>4, <2>2
  <2> QED BY <1>1, <2>4, <2>6, <2>7, Zenon
<1> QED BY <1>5, <1>6

(* Every byte of a key leads to the state with that key.                   *)
LEMMA KeyLeads ==
  ASSUME NEW a, NEW p \in Seq(Byte), NEW b, b = Released(b, FALSE), NEW k \in DOMAIN Code,
         set \in {1, 2}, Leads(set, a, p, b)
  PROVE  /\ MakeBytes(k) \in Seq(Byte) /\ BreakBytes(k) \in Seq(Byte)
         /\ Leads(set, a, p \o MakeBytes(k), WithKey(b, k, TRUE))
         /\ Leads(set, a, p \o BreakBytes(k), WithKey(b, k, FALSE))
<1>1. PICK sc \in {1, 2} : sc = set
  OBVIOUS
<1>2. PICK one \in 1 .. 127, two \in 1 .. 131 : one = Code[k].one /\ two = Code[k].two
  <2>1. Code[k].one \in 1 .. 127 /\ IF k = "f7" THEN Code[k].two = \h83 ELSE Code[k].two \in 1 .. 127
    BY Codes
  <2>2. Code[k].two \in 1 .. 131
    BY <2>1
  <2> QED BY <2>1, <2>2
<1>3. one \in Byte /\ two \in Byte /\ one + 128 \in Byte /\ \hE0 \in Byte /\ \hF0 \in Byte
  <2>1. one \in 1 .. 127 /\ two \in 1 .. 131
    OBVIOUS
  <2> QED BY <2>1 DEF Byte
<1>4. PICK m \in Byte : m = IF sc = 1 THEN one ELSE two
  BY <1>2, <1>3
<1>5. PICK e \in Seq(Byte) : e = p \o Prefix(k) /\ Prefix(k) \in Seq(Byte) /\ Leads(sc, a, e, b)
  <2>1. CASE Code[k].ext
    <3>1. Prefix(k) = <<\hE0>>
      BY <2>1 DEF Prefix
    <3>2. Leads(sc, a, p \o <<\hE0>>, b)
      <4>1. Leads(sc, a, p \o <<\hE0>>, After(sc, b, \hE0))
        BY <1>1, <1>3, LeadsOn
      <4>2. After(sc, b, \hE0) = b
        BY AfterE0, ZenonT(40)
      <4> QED BY <4>1, <4>2
    <3>3. <<\hE0>> \in Seq(Byte) /\ p \o <<\hE0>> \in Seq(Byte)
      BY <1>3
    <3> QED BY <3>1, <3>2, <3>3
  <2>2. CASE ~Code[k].ext
    <3>1. Prefix(k) = <<>> /\ p \o <<>> = p
      BY <2>2 DEF Prefix
    <3> QED BY <1>1, <3>1
  <2> QED BY <2>1, <2>2
<1>6. /\ MakeBytes(k) \in Seq(Byte)
      /\ Leads(set, a, p \o MakeBytes(k), WithKey(b, k, TRUE))
  <2>1. MakeBytes(k) = Prefix(k) \o <<m>>
    BY <1>1, <1>2, <1>4 DEF MakeBytes
  <2>2. p \o (Prefix(k) \o <<m>>) = e \o <<m>> /\ Prefix(k) \o <<m>> \in Seq(Byte)
    BY <1>5
  <2>3. Leads(sc, a, e \o <<m>>, After(sc, b, m))
    BY <1>5, LeadsOn
  <2>4. After(sc, b, m) = WithKey(b, k, TRUE)
    BY <1>2, <1>4, AfterMake
  <2> QED BY <1>1, <2>1, <2>2, <2>3, <2>4
<1>7. /\ BreakBytes(k) \in Seq(Byte)
      /\ Leads(set, a, p \o BreakBytes(k), WithKey(b, k, FALSE))
  <2>1. CASE sc = 1
    <3>1. PICK x \in Byte : x = one + 128
      BY <1>3
    <3>2. BreakBytes(k) = Prefix(k) \o <<x>>
      BY <1>1, <1>2, <2>1, <3>1 DEF BreakBytes
    <3>3. p \o (Prefix(k) \o <<x>>) = e \o <<x>> /\ Prefix(k) \o <<x>> \in Seq(Byte)
      BY <1>5
    <3>4. Leads(sc, a, e \o <<x>>, After(sc, b, x))
      BY <1>5, LeadsOn
    <3> QED BY <1>1, <1>2, <2>1, <3>1, <3>2, <3>3, <3>4, AfterBreak, ZenonT(40)
  <2>2. CASE sc = 2
    <3>1. PICK f \in Byte : f = \hF0
      BY <1>3
    <3>2. BreakBytes(k) = Prefix(k) \o <<f, two>>
      BY <1>1, <1>2, <2>2, <3>1 DEF BreakBytes
    <3>3. /\ p \o (Prefix(k) \o <<f, two>>) = (e \o <<f>>) \o <<two>>
          /\ Prefix(k) \o <<f, two>> \in Seq(Byte) /\ e \o <<f>> \in Seq(Byte)
      <4>1. two \in Byte /\ <<f>> \in Seq(Byte) /\ <<two>> \in Seq(Byte)
        BY <1>3
      <4>2. <<f, two>> = <<f>> \o <<two>> /\ <<f, two>> \in Seq(Byte)
        BY <4>1
      <4>3. e \o <<f>> \in Seq(Byte) /\ Prefix(k) \o <<f, two>> \in Seq(Byte)
        BY <1>5, <4>1, <4>2
      <4>4. (e \o <<f>>) \o <<two>> = e \o (<<f>> \o <<two>>)
        BY <4>1, ConcatAssociative, SMTT(30)
      <4>5. p \o (Prefix(k) \o <<f, two>>) = (p \o Prefix(k)) \o <<f, two>>
        BY <1>5, <4>2, ConcatAssociative
      <4> QED BY <1>5, <4>2, <4>3, <4>4, <4>5
    <3>4. Leads(sc, a, e \o <<f>>, After(sc, b, f))
      BY <1>5, LeadsOn
    <3>5. Leads(sc, a, (e \o <<f>>) \o <<two>>, After(sc, After(sc, b, f), two))
      BY <1>3, <3>3, <3>4, LeadsOn
    <3> QED BY <1>1, <1>2, <2>2, <3>1, <3>2, <3>3, <3>5, AfterBreak, ZenonT(40)
  <2> QED BY <2>1, <2>2
<1> QED BY <1>6, <1>7

-----------------------------------------------------------------------------
(* The handler of the keyboard.                                            *)

(* What a byte is decoded to, when it is looked up inside the table.       *)
LEMMA DecodedAs ==
  ASSUME NEW sc \in {1, 2}, sc = scancode_set, NEW s, release_next = s.release,
         s.release \in BOOLEAN, NEW b \in Byte, ~(sc = 2 /\ s.release /\ b >= 128),
         NEW e \in Decoded(b)
  PROVE  /\ e.code = CodeOf(sc, s, b)
         /\ UpOf(sc, s, b) => e.up
         /\ ~UpOf(sc, s, b) => ~e.up
<1>1. CASE sc = 1
  <2>1. e.code = b % 128 /\ e.up = (b >= 128)
    BY <1>1 DEF Decoded
  <2>2. e.up <=> b >= 128
    BY <2>1
  <2> QED BY <1>1, <2>1, <2>2 DEF CodeOf, UpOf
<1>2. CASE sc = 2 /\ s.release
  <2>1. b < 128
    BY <1>2 DEF Byte
  <2>2. e.code = us_set2_to_set1(b) /\ e.up = TRUE
    BY <1>2, <2>1 DEF Decoded
  <2> QED BY <1>2, <2>2 DEF CodeOf, UpOf
<1>3. CASE sc = 2 /\ ~s.release
  <2>1. e.code = us_set2_to_set1(b % 128) /\ e.up = (b >= 128)
    BY <1>3 DEF Decoded
  <2>2. e.up <=> b >= 128
    BY <2>1
  <2> QED BY <1>3, <2>1, <2>2 DEF CodeOf, UpOf
<1> QED BY <1>1, <1>2, <1>3

(* The modifiers after a code has been taken.                              *)
LEMMA TakenFields ==
  ASSUME NEW s, NEW c
  PROVE  /\ Taken(s, c, TRUE).shift = IF IsShift(c) THEN FALSE ELSE s.shift
         /\ Taken(s, c, TRUE).ctrl = IF IsCtrl(c) THEN FALSE ELSE s.ctrl
         /\ Taken(s, c, TRUE).alt = IF IsAlt(c) THEN FALSE ELSE s.alt
         /\ Taken(s, c, FALSE).shift = IF IsShift(c) THEN TRUE ELSE s.shift
         /\ Taken(s, c, FALSE).ctrl = IF IsCtrl(c) THEN TRUE ELSE s.ctrl
         /\ Taken(s, c, FALSE).alt = IF IsAlt(c) THEN TRUE ELSE s.alt
         /\ Taken(s, c, FALSE).caps = IF IsCaps(c) THEN ~s.caps ELSE s.caps
<1>0. (~TRUE) = FALSE /\ (~FALSE) = TRUE
  OBVIOUS
<1>1. Taken(s, c, TRUE).shift = IF IsShift(c) THEN FALSE ELSE s.shift
  BY <1>0 DEF Taken
<1>2. Taken(s, c, TRUE).ctrl = IF IsCtrl(c) THEN FALSE ELSE s.ctrl
  BY <1>0 DEF Taken
<1>3. Taken(s, c, TRUE).alt = IF IsAlt(c) THEN FALSE ELSE s.alt
  BY <1>0 DEF Taken
<1>4. Taken(s, c, FALSE).shift = IF IsShift(c) THEN TRUE ELSE s.shift
  BY <1>0 DEF Taken
<1>5. Taken(s, c, FALSE).ctrl = IF IsCtrl(c) THEN TRUE ELSE s.ctrl
  BY <1>0 DEF Taken
<1>6. Taken(s, c, FALSE).alt = IF IsAlt(c) THEN TRUE ELSE s.alt
  BY <1>0 DEF Taken
<1>7. Taken(s, c, FALSE).caps = IF IsCaps(c) THEN ~s.caps ELSE s.caps
  BY <1>0 DEF Taken
<1> QED BY <1>1, <1>2, <1>3, <1>4, <1>5, <1>6, <1>7

(* A byte taken by keyboard_handler moves the driver as After says.        *)
LEMMA HandlerFollows ==
  ASSUME Ps2TypeOK, NEW sc \in {1, 2}, sc = scancode_set, NEW s, Follows(s), NEW b \in Byte,
         keyboard_handler(b)
  PROVE  Follows(After(sc, s, b))'
<1> DEFINE Mods == shift_pressed \in BOOLEAN /\ ctrl_pressed \in BOOLEAN /\ alt_pressed \in BOOLEAN
<1>1. /\ s.shift \in BOOLEAN /\ s.ctrl \in BOOLEAN /\ s.alt \in BOOLEAN /\ s.caps \in BOOLEAN
      /\ release_next = s.release /\ s.release \in BOOLEAN
      /\ wild \in BOOLEAN /\ capslock_on \in BOOLEAN /\ Mods
  BY DEF Ps2TypeOK, Flag, Follows
<1>2. CASE IsPrefix(b)
  <2>1. sc = 2 /\ b = \hF0
    BY <1>2 DEF IsPrefix
  <2>2. After(sc, s, b) = Released(s, TRUE)
    BY <2>1 DEF After
  <2>3. /\ release_next' = TRUE
        /\ UNCHANGED <<shift_pressed, ctrl_pressed, alt_pressed, capslock_on, out, wild>>
    BY <1>2 DEF keyboard_handler
  <2> QED BY <1>1, <2>2, <2>3 DEF Follows, Released
<1>3. CASE ~IsPrefix(b)
  <2>1. ~(sc = 2 /\ b = \hF0)
    BY <1>3 DEF IsPrefix
  <2>2. PICK e \in Decoded(b) :
          /\ release_next' = FALSE
          /\ wild' = (wild \/ (scancode_set = 2 /\ release_next /\ b >= 128)
                           \/ (scancode_set \notin {1, 2} /\ b >= 128))
          /\ shift_pressed' = IF IsShift(e.code) THEN ~e.up ELSE shift_pressed
          /\ ctrl_pressed' = IF IsCtrl(e.code) THEN ~e.up ELSE ctrl_pressed
          /\ alt_pressed' = IF IsAlt(e.code) THEN ~e.up ELSE alt_pressed
          /\ capslock_on' = IF IsCaps(e.code) /\ ~e.up THEN ~capslock_on ELSE capslock_on
          /\ out' = IF ~IsModifier(e) /\ ~e.up /\ e.code \in HasCharacter
                      THEN Append(out, <<e.code, Column(shift_pressed, capslock_on)>>) ELSE out
    <3>1. \A c : Displays(c) = {c \in HasCharacter}
      BY DEF Displays
    <3>2. \A c : \A visible \in Displays(c) : visible <=> c \in HasCharacter
      BY <3>1
    <3> QED BY <1>3, <3>2 DEF keyboard_handler
  <2>3. CASE sc = 2 /\ s.release /\ b >= 128
    <3>1. After(sc, s, b) = Released(s, FALSE)
      BY <2>1, <2>3 DEF After
    <3>2. wild' = TRUE
      BY <1>1, <2>2, <2>3
    <3>3. e.up = TRUE
      BY <1>1, <2>3 DEF Decoded
    <3>4. /\ shift_pressed' => shift_pressed
          /\ ctrl_pressed' => ctrl_pressed
          /\ alt_pressed' => alt_pressed
      BY <1>1, <2>2, <3>3
    <3>5. PICK x : x = After(sc, s, b)
      OBVIOUS
    <3>6. /\ x.shift = s.shift /\ x.ctrl = s.ctrl /\ x.alt = s.alt /\ x.caps = s.caps
          /\ x.release = FALSE
      BY <3>1, <3>5 DEF Released
    <3>7. (shift_pressed => s.shift) /\ (ctrl_pressed => s.ctrl) /\ (alt_pressed => s.alt)
      BY DEF Follows
    <3>8. release_next' = FALSE
      BY <2>2
    <3>9. Follows(x)'
      BY <1>1, <3>2, <3>4, <3>6, <3>7, <3>8 DEF Follows
    <3> QED BY <3>5, <3>9
  <2>4. CASE ~(sc = 2 /\ s.release /\ b >= 128)
    <3>1. PICK c : c = CodeOf(sc, s, b)
      OBVIOUS
    <3>2. /\ e.code = c
          /\ UpOf(sc, s, b) => e.up
          /\ ~UpOf(sc, s, b) => ~e.up
      BY <1>1, <2>4, <3>1, DecodedAs
    <3>3. wild' = wild
      BY <1>1, <2>2, <2>4
    <3>4. CASE UpOf(sc, s, b)
      <4>1. After(sc, s, b) = Taken(s, c, TRUE)
        BY <2>1, <2>4, <3>1, <3>4 DEF After
      <4>2. /\ shift_pressed' = IF IsShift(c) THEN FALSE ELSE shift_pressed
            /\ ctrl_pressed' = IF IsCtrl(c) THEN FALSE ELSE ctrl_pressed
            /\ alt_pressed' = IF IsAlt(c) THEN FALSE ELSE alt_pressed
            /\ capslock_on' = capslock_on /\ out' = out /\ release_next' = FALSE
        BY <2>2, <3>2, <3>4
      <4>3. PICK x : x = After(sc, s, b)
        OBVIOUS
      <4>4. /\ x.shift = IF IsShift(c) THEN FALSE ELSE s.shift
            /\ x.ctrl = IF IsCtrl(c) THEN FALSE ELSE s.ctrl
            /\ x.alt = IF IsAlt(c) THEN FALSE ELSE s.alt
        <5>1. x = Taken(s, c, TRUE)
          BY <4>1, <4>3
        <5> QED BY <5>1, TakenFields, Zenon
      <4>5. x.caps = s.caps /\ x.out = s.out /\ x.release = FALSE
        BY <4>1, <4>3 DEF Taken
      <4>6. Follows(x)'
        BY <1>1, <3>3, <4>2, <4>4, <4>5 DEF Follows
      <4> QED BY <4>3, <4>6
    <3>5. CASE ~UpOf(sc, s, b)
      <4>1. After(sc, s, b) = Taken(s, c, FALSE)
        BY <2>1, <2>4, <3>1, <3>5 DEF After
      <4>2. c \in HasCharacter => ~IsModifier(e)
        BY <3>2 DEF HasCharacter, IsModifier, IsShift, IsCtrl, IsAlt, IsCaps
      <4>3. /\ shift_pressed' = IF IsShift(c) THEN TRUE ELSE shift_pressed
            /\ ctrl_pressed' = IF IsCtrl(c) THEN TRUE ELSE ctrl_pressed
            /\ alt_pressed' = IF IsAlt(c) THEN TRUE ELSE alt_pressed
            /\ capslock_on' = IF IsCaps(c) THEN ~capslock_on ELSE capslock_on
            /\ release_next' = FALSE
        BY <2>2, <3>2, <3>5
      <4>4. out' = IF c \in HasCharacter
                     THEN Append(out, <<c, Column(shift_pressed, capslock_on)>>) ELSE out
        BY <2>2, <3>2, <3>5, <4>2
      <4>5. PICK x : x = After(sc, s, b)
        OBVIOUS
      <4>6. /\ x.shift = IF IsShift(c) THEN TRUE ELSE s.shift
            /\ x.ctrl = IF IsCtrl(c) THEN TRUE ELSE s.ctrl
            /\ x.alt = IF IsAlt(c) THEN TRUE ELSE s.alt
            /\ x.caps = IF IsCaps(c) THEN ~s.caps ELSE s.caps
        <5>1. x = Taken(s, c, FALSE)
          BY <4>1, <4>5
        <5> QED BY <5>1, TakenFields, Zenon
      <4>7. /\ x.out = IF c \in HasCharacter
                        THEN Append(s.out, <<c, Column(s.shift, s.caps)>>) ELSE s.out
            /\ x.release = FALSE
        BY <4>1, <4>5 DEF Taken
      <4>8. ~wild => shift_pressed = s.shift /\ capslock_on = s.caps /\ out = s.out
        BY DEF Follows
      <4>9. ~wild' => out' = x.out
        BY <3>3, <4>4, <4>7, <4>8
      <4>10. Follows(x)'
        BY <1>1, <3>3, <4>3, <4>6, <4>7, <4>9 DEF Follows
      <4> QED BY <4>5, <4>10
    <3> QED BY <3>4, <3>5
  <2> QED BY <2>3, <2>4
<1> QED BY <1>2, <1>3

-----------------------------------------------------------------------------
(* Bytes on their way.                                                     *)

(* They are bytes.                                                         *)
LEMMA PendingTyped ==
  ASSUME LineInv, NEW d \in Ps2Hardware
  PROVE  InBuffer(d) \in Seq(Byte) /\ queue[d] \in Seq(Byte) /\ Pending(d) \in Seq(Byte)
<1>1. queue[d] \in Seq(Byte)
  BY DEF LineInv
<1>2. obf # EMPTY => <<obf.byte>> \in Seq(Byte)
  BY DEF LineInv, Held
<1>3. InBuffer(d) \in Seq(Byte)
  BY <1>2 DEF InBuffer
<1> QED BY <1>1, <1>3 DEF Pending

(* A byte that enters the buffer stays on its way.                         *)
LEMMA DeliverPending ==
  ASSUME LineInv, NEW d \in Ps2Hardware, Deliver(d), NEW e \in Ps2Hardware
  PROVE  /\ obf' \in Held /\ obf' # EMPTY /\ obf'.from = d
         /\ queue' \in [Ps2Hardware -> Seq(Byte)] /\ Pending(e)' = Pending(e)
<1>1. PICK q \in Seq(Byte) : q = queue[d] /\ q # <<>>
  BY PendingTyped DEF Deliver
<1>2. /\ obf = EMPTY /\ obf' = [from |-> d, byte |-> Head(q)]
      /\ queue' = [queue EXCEPT ![d] = Tail(q)]
  BY <1>1 DEF Deliver
<1>3. Head(q) \in Byte /\ Tail(q) \in Seq(Byte) /\ <<Head(q)>> \o Tail(q) = q
  BY <1>1
<1>4. obf' \in Held /\ obf' # EMPTY /\ obf'.from = d /\ obf'.byte = Head(q)
  BY <1>2, <1>3, Ps2Assumption DEF Held, Ps2Hardware
<1>5. queue' \in [Ps2Hardware -> Seq(Byte)]
  BY <1>2, <1>3 DEF LineInv
<1>6. Pending(e) = queue[e]
  <2>1. InBuffer(e) = <<>> /\ queue[e] \in Seq(Byte)
    BY <1>2, PendingTyped DEF InBuffer
  <2> QED BY <2>1 DEF Pending
<1>7. CASE e = d
  <2>1. InBuffer(e)' = <<Head(q)>> /\ queue'[e] = Tail(q)
    BY <1>2, <1>4, <1>7 DEF InBuffer, LineInv
  <2> QED BY <1>1, <1>3, <1>4, <1>5, <1>6, <1>7, <2>1 DEF Pending
<1>8. CASE e # d
  <2>1. InBuffer(e)' = <<>> /\ queue'[e] = queue[e]
    BY <1>2, <1>4, <1>8 DEF InBuffer, LineInv
  <2>2. <<>> \o queue[e] = queue[e]
    BY PendingTyped
  <2> QED BY <1>4, <1>5, <1>6, <2>1, <2>2 DEF Pending
<1> QED BY <1>7, <1>8

(* What a device says goes behind what is on its way.                      *)
LEMMA SaidPending ==
  ASSUME LineInv, NEW d \in Ps2Hardware, NEW bytes \in Seq(Byte), NEW e \in Ps2Hardware,
         queue' = [queue EXCEPT ![d] = @ \o bytes], UNCHANGED obf
  PROVE  /\ queue' \in [Ps2Hardware -> Seq(Byte)]
         /\ Pending(e)' = IF e = d THEN Pending(e) \o bytes ELSE Pending(e)
<1>1. queue[d] \in Seq(Byte) /\ InBuffer(d) \in Seq(Byte)
  BY PendingTyped
<1>2. queue[d] \o bytes \in Seq(Byte)
  BY <1>1
<1>3. queue' \in [Ps2Hardware -> Seq(Byte)]
  BY <1>2 DEF LineInv
<1>4. InBuffer(e)' = InBuffer(e)
  BY DEF InBuffer
<1>5. queue'[e] = IF e = d THEN queue[d] \o bytes ELSE queue[e]
  BY DEF LineInv
<1>6. InBuffer(d) \o (queue[d] \o bytes) = (InBuffer(d) \o queue[d]) \o bytes
  <2>1. PICK x \in Seq(Byte), y \in Seq(Byte) : x = InBuffer(d) /\ y = queue[d]
    BY <1>1
  <2>2. (x \o y) \o bytes = x \o (y \o bytes)
    BY ConcatAssociative
  <2> QED BY <2>1, <2>2
<1> QED BY <1>3, <1>4, <1>5, <1>6 DEF Pending

(* The byte in the buffer is the next of its device.                       *)
LEMMA TakePending ==
  ASSUME LineInv, obf # EMPTY, obf' = EMPTY, UNCHANGED queue, NEW e \in Ps2Hardware
  PROVE  /\ obf.from \in Ps2Hardware /\ obf.byte \in Byte /\ Pending(e)' \in Seq(Byte)
         /\ Pending(e)' = queue[e]
         /\ Pending(e) = IF e = obf.from THEN <<obf.byte>> \o Pending(e)' ELSE Pending(e)'
<1>1. obf.from \in Ps2Hardware /\ obf.byte \in Byte
  BY DEF LineInv, Held
<1>2. queue[e] \in Seq(Byte)
  BY PendingTyped
<1>3. Pending(e)' = queue[e]
  <2>1. InBuffer(e)' = <<>> /\ queue'[e] = queue[e]
    BY DEF InBuffer
  <2> QED BY <1>2, <2>1 DEF Pending
<1>4. InBuffer(e) = IF e = obf.from THEN <<obf.byte>> ELSE <<>>
  BY DEF InBuffer
<1>5. <<>> \o queue[e] = queue[e]
  BY <1>2
<1> QED BY <1>1, <1>2, <1>3, <1>4, <1>5 DEF Pending

-----------------------------------------------------------------------------
(* Types, and the lines.                                                   *)

(* The commands of ps2_controller_init.                                    *)
LEMMA CommandsOK ==
  /\ Len(Commands) = 4
  /\ Commands[1] = [to |-> MOUSE, byte |-> \hFF, reads |-> 3]
  /\ Commands[2] = [to |-> MOUSE, byte |-> \hF4, reads |-> 1]
  /\ Commands[3] = [to |-> KEYBOARD, byte |-> \hF0, reads |-> 1]
  /\ Commands[4] = [to |-> KEYBOARD, byte |-> 0, reads |-> 2]
BY DEF Commands

(* The answers to a command: as many bytes as are read, from a device that *)
(* is there.                                                               *)
LEMMA AnswersOK ==
  ASSUME mouse \in BOOLEAN, set \in {1, 2}, NEW n \in 1 .. 4
  PROVE  /\ Commands[n].to \in Ps2Hardware /\ Commands[n].reads \in 1 .. 3
         /\ Answers(Commands[n]) \in Seq(Byte)
         /\ Len(Answers(Commands[n])) = IF Answering(Commands[n].to) THEN Commands[n].reads ELSE 0
         /\ n = 4 => Commands[n].to = KEYBOARD /\ Answers(Commands[n]) = <<\hFA, set>>
<1>1. KEYBOARD # MOUSE
  BY DEF KEYBOARD, MOUSE
<1>2. \hFA \in Byte /\ \hAA \in Byte /\ 0 \in Byte /\ set \in Byte
  BY DEF Byte
<1>3. Commands[n].to \in Ps2Hardware /\ Commands[n].reads \in 1 .. 3
  <2>1. n = 1 \/ n = 2 \/ n = 3 \/ n = 4
    OBVIOUS
  <2> QED BY <2>1, CommandsOK DEF Ps2Hardware
<1>4. CASE n = 1
  <2>1. Answers(Commands[n]) = IF mouse THEN <<\hFA, \hAA, \h00>> ELSE <<>>
    BY <1>4, CommandsOK DEF Answers
  <2>2. <<\hFA, \hAA, \h00>> \in Seq(Byte)
    BY <1>2
  <2> QED BY <1>1, <1>3, <1>4, <2>1, <2>2, CommandsOK DEF Answering
<1>5. CASE n = 2
  <2>1. Answers(Commands[n]) = IF mouse THEN <<\hFA>> ELSE <<>>
    BY <1>5, CommandsOK DEF Answers
  <2>2. <<\hFA>> \in Seq(Byte)
    BY <1>2
  <2> QED BY <1>1, <1>3, <1>5, <2>1, <2>2, CommandsOK DEF Answering
<1>6. CASE n = 3
  <2>1. Answers(Commands[n]) = <<\hFA>>
    BY <1>6, CommandsOK DEF Answers
  <2>2. <<\hFA>> \in Seq(Byte)
    BY <1>2
  <2> QED BY <1>3, <1>6, <2>1, <2>2, CommandsOK DEF Answering
<1>7. CASE n = 4
  <2>1. Answers(Commands[n]) = <<\hFA, set>>
    BY <1>7, CommandsOK DEF Answers
  <2>2. <<\hFA, set>> \in Seq(Byte) /\ Len(<<\hFA, set>>) = 2
    BY <1>2
  <2> QED BY <1>3, <1>7, <2>1, <2>2, CommandsOK DEF Answering
<1> QED BY <1>4, <1>5, <1>6, <1>7

(* The bytes of keys are bytes.                                            *)
LEMMA KeyBytes ==
  ASSUME LineInv, NEW k \in Keys
  PROVE  k \in DOMAIN Code /\ MakeBytes(k) \in Seq(Byte) /\ BreakBytes(k) \in Seq(Byte)
<1>1. k \in DOMAIN Code
  BY Ps2Assumption
<1>2. PICK b : b = Released([shift |-> 0, ctrl |-> 0, alt |-> 0, caps |-> 0, out |-> 0], FALSE)
  OBVIOUS
<1>3. b = Released(b, FALSE)
  BY <1>2 DEF Released
<1>4. Leads(set, b, <<>>, b) /\ <<>> \in Seq(Byte)
  BY LeadsNowhere
<1> QED BY <1>1, <1>3, <1>4, KeyLeads DEF LineInv

(* What comes too late is counted.                                         *)
LEMMA LateCounts ==
  ASSUME late \in 0 .. MaxLate, NEW missed, TooLate(missed)
  PROVE  late' \in 0 .. MaxLate /\ (late' = 0 => late = 0 /\ ~missed)
BY Ps2Assumption DEF TooLate

(* What a device says changes no more than its queue.                      *)
LEMMA SpokenKeepsLines ==
  ASSUME Ps2TypeOK, LineInv, NEW d \in Ps2Hardware, NEW bytes \in Seq(Byte), Spoken(d, bytes),
         down' \subseteq Keys, merged' \in BOOLEAN
  PROVE  Ps2TypeOK' /\ LineInv'
<1>1. queue' \in [Ps2Hardware -> Seq(Byte)]
  BY SaidPending DEF Spoken
<1>2. late' \in 0 .. MaxLate
  BY LateCounts DEF Spoken, Ps2TypeOK
<1>3. UNCHANGED <<mouse, set, ps2_pc, step, reads, scancode_set, port, shift_pressed, ctrl_pressed,
                  alt_pressed, capslock_on, release_next, mouse_cycle, mouse_packet,
                  open_lines, irr, obf, stray, wild>>
  BY DEF Spoken, init, kbd, mse
<1>4. Ps2TypeOK'
  BY <1>2, <1>3 DEF Ps2TypeOK, Flag
<1> QED BY <1>1, <1>3, <1>4 DEF LineInv

(* Handlers keep the driver's numbers and flags.                           *)
LEMMA HandlerTypes ==
  ASSUME Ps2TypeOK, NEW b \in Byte
  PROVE  /\ keyboard_handler(b) =>
              {shift_pressed', ctrl_pressed', alt_pressed', capslock_on', release_next', wild'}
                \subseteq BOOLEAN
         /\ mouse_handler(b) => mouse_cycle' \in 0 .. 2 /\ mouse_packet' \in [0 .. 2 -> Byte]
<1>1. ASSUME keyboard_handler(b)
      PROVE  {shift_pressed', ctrl_pressed', alt_pressed', capslock_on', release_next', wild'}
               \subseteq BOOLEAN
  <2>1. /\ shift_pressed \in BOOLEAN /\ ctrl_pressed \in BOOLEAN /\ alt_pressed \in BOOLEAN
        /\ capslock_on \in BOOLEAN /\ wild \in BOOLEAN
    BY DEF Ps2TypeOK, Flag
  <2> QED BY <1>1, <2>1 DEF keyboard_handler
<1>2. ASSUME mouse_handler(b)
      PROVE  mouse_cycle' \in 0 .. 2 /\ mouse_packet' \in [0 .. 2 -> Byte]
  <2>1. mouse_cycle \in 0 .. 2 /\ mouse_packet \in [0 .. 2 -> Byte]
    BY DEF Ps2TypeOK
  <2>2. CycleAfter(mouse_cycle, b) \in 0 .. 2
    <3>1. (mouse_cycle + 1) % 3 \in 0 .. 2
      BY <2>1
    <3> QED BY <3>1 DEF CycleAfter
  <2> QED BY <1>2, <2>1, <2>2 DEF mouse_handler
<1> QED BY <1>1, <1>2

(* An interrupt takes the byte of its own device: no other line has a      *)
(* request pending.                                                        *)
LEMMA InterruptKeepsLines ==
  ASSUME Ps2TypeOK, LineInv, NEW irq \in Ps2Hardware, Interrupt(irq)
  PROVE  Ps2TypeOK' /\ LineInv' /\ obf # EMPTY /\ obf.from = irq
<1>1. obf # EMPTY /\ irr = {obf.from} /\ irr' = {} /\ obf.from = irq /\ obf.byte \in Byte
  BY DEF Interrupt, LineInv, Held
<1>2. /\ obf' = EMPTY /\ port' = obf.byte /\ stray' = (stray \/ obf.from # irq)
      /\ \/ irq = KEYBOARD /\ keyboard_handler(obf.byte) /\ UNCHANGED mse
         \/ irq = MOUSE /\ mouse_handler(obf.byte) /\ UNCHANGED <<kbd, wild>>
      /\ UNCHANGED <<mouse, set, ps2_pc, step, reads, scancode_set, open_lines, queue, down, late, merged>>
  BY <1>1 DEF Interrupt, HasByte, init, user
<1>3. stray' = FALSE
  BY <1>1, <1>2 DEF LineInv
<1>4. /\ {shift_pressed', ctrl_pressed', alt_pressed', capslock_on', release_next', wild'}
           \subseteq BOOLEAN
      /\ mouse_cycle' \in 0 .. 2 /\ mouse_packet' \in [0 .. 2 -> Byte]
  <2>1. /\ {shift_pressed, ctrl_pressed, alt_pressed, capslock_on, release_next, wild} \subseteq BOOLEAN
        /\ mouse_cycle \in 0 .. 2 /\ mouse_packet \in [0 .. 2 -> Byte]
    BY DEF Ps2TypeOK, Flag
  <2>2. CASE keyboard_handler(obf.byte) /\ UNCHANGED mse
    BY <1>1, <2>1, <2>2, HandlerTypes DEF mse
  <2>3. CASE mouse_handler(obf.byte) /\ UNCHANGED <<kbd, wild>>
    BY <1>1, <2>1, <2>3, HandlerTypes DEF kbd
  <2> QED BY <1>2, <2>2, <2>3
<1>5. Ps2TypeOK'
  <2>1. Flag' \subseteq BOOLEAN
    BY <1>2, <1>3, <1>4 DEF Flag, Ps2TypeOK
  <2> QED BY <1>1, <1>2, <1>4, <2>1 DEF Ps2TypeOK
<1>6. LineInv'
  BY <1>1, <1>2, <1>3 DEF LineInv
<1> QED BY <1>1, <1>5, <1>6

(* A byte that enters the buffer raises its own line.                      *)
LEMMA DeliverKeepsLines ==
  ASSUME Ps2TypeOK, LineInv, NEW d \in Ps2Hardware, Deliver(d)
  PROVE  Ps2TypeOK' /\ LineInv'
<1>1. /\ obf' \in Held /\ obf' # EMPTY /\ obf'.from = d /\ queue' \in [Ps2Hardware -> Seq(Byte)]
  BY DeliverPending
<1>2. /\ obf = EMPTY /\ irr' = irr \cup ({d} \cap open_lines)
      /\ UNCHANGED <<mouse, set, ps2_pc, step, reads, scancode_set, port, shift_pressed, ctrl_pressed,
                      alt_pressed, capslock_on, release_next, mouse_cycle, mouse_packet,
                      open_lines, down, late, stray, wild, merged>>
  BY DEF Deliver, init, kbd, mse, user
<1>3. irr = {}
  BY <1>2 DEF LineInv
<1>4. Ps2TypeOK'
  BY <1>1, <1>2, <1>3 DEF Ps2TypeOK, Flag, Held, Ps2Hardware
<1>5. LineInv'
  BY <1>1, <1>2, <1>3 DEF LineInv
<1> QED BY <1>4, <1>5

(* The driver's own steps.                                                 *)
LEMMA DriverKeepsLines ==
  ASSUME Ps2TypeOK, LineInv, Ps2Driver
  PROVE  Ps2TypeOK' /\ LineInv'
<1>1. CASE SendCommand
  <2>1. /\ step \in 1 .. 4 /\ queue' = [queue EXCEPT ![Commands[step].to] = @ \o Answers(Commands[step])]
        /\ reads' = Commands[step].reads
        /\ UNCHANGED <<mouse, set, ps2_pc, step, port, scancode_set, kbd, mse, open_lines, irr, obf, user,
                        late, stray, wild>>
    BY <1>1, CommandsOK DEF SendCommand, Ps2TypeOK
  <2>2. /\ Commands[step].to \in Ps2Hardware /\ Answers(Commands[step]) \in Seq(Byte)
        /\ reads' \in 1 .. 3
    BY <2>1, AnswersOK DEF LineInv
  <2>3. queue' \in [Ps2Hardware -> Seq(Byte)]
    BY <2>1, <2>2, SaidPending
  <2>4. Ps2TypeOK'
    BY <2>1, <2>2 DEF Ps2TypeOK, Flag, kbd, mse, user
  <2> QED BY <2>1, <2>2, <2>3, <2>4 DEF LineInv
<1>2. CASE ReadAnswer
  <2>1. /\ ps2_pc = "init" /\ reads > 0 /\ port' = (IF obf # EMPTY THEN obf.byte ELSE port)
        /\ obf' = EMPTY /\ reads' = reads - 1 /\ step' = (IF reads = 1 THEN step + 1 ELSE step)
        /\ scancode_set' = (IF step = Len(Commands) /\ reads = 1 THEN port' ELSE scancode_set)
        /\ UNCHANGED <<mouse, set, ps2_pc, kbd, mse, open_lines, irr, queue, user, stray, wild>>
    BY <1>2 DEF ReadAnswer
  <2>2. late' \in 0 .. MaxLate
    BY <1>2, LateCounts DEF ReadAnswer, Ps2TypeOK
  <2>3. port' \in Byte
    BY <2>1 DEF Ps2TypeOK, LineInv, Held
  <2>4. step \in 1 .. 4 /\ reads \in 1 .. 3
    BY <2>1, CommandsOK DEF Ps2TypeOK, LineInv
  <2>5. step' \in 1 .. 5 /\ reads' \in 0 .. 2 /\ (reads' > 0 => step' <= 4)
    BY <2>1, <2>4
  <2>6. irr = {} /\ open_lines = {}
    BY <2>1 DEF LineInv, Ps2TypeOK
  <2>7. Ps2TypeOK'
    BY <2>1, <2>2, <2>3, <2>5, <2>6, CommandsOK DEF Ps2TypeOK, Flag, kbd, mse, user
  <2> QED BY <2>1, <2>5, <2>6, <2>7 DEF LineInv
<1>3. CASE OpenLine
  <2>1. /\ ps2_pc \in {"init", "mouse"} /\ ps2_pc' \in {"mouse", "run"}
        /\ open_lines' = open_lines \cup Ps2Lines
        /\ UNCHANGED <<mouse, set, step, reads, port, scancode_set, kbd, mse, irr, obf, queue, user,
                        late, stray, wild>>
    BY <1>3 DEF OpenLine
  <2>2. Ps2Lines \subseteq Ps2Hardware /\ (ps2_pc = "init" => KEYBOARD \in Ps2Lines)
    BY DEF Ps2Lines, Ps2Hardware
  <2>3. Ps2TypeOK'
    BY <2>1, <2>2 DEF Ps2TypeOK, Flag, kbd, mse, user, Ps2Hardware
  <2> QED BY <2>1, <2>2, <2>3 DEF LineInv
<1> QED BY <1>1, <1>2, <1>3 DEF Ps2Driver

-----------------------------------------------------------------------------
(* The dialogue with the devices.                                          *)

(* A command finds nothing on its way, and its answers are what is read    *)
(* next.                                                                   *)
LEMMA SendKeepsTalk ==
  ASSUME Ps2TypeOK, LineInv, TalkInv, SendCommand
  PROVE  TalkInv'
<1> SUFFICES ASSUME late = 0 PROVE TalkInv'
  BY DEF SendCommand, TalkInv
<1>1. /\ ps2_pc = "init" /\ reads = 0 /\ step \in 1 .. 4 /\ reads' = Commands[step].reads
      /\ queue' = [queue EXCEPT ![Commands[step].to] = @ \o Answers(Commands[step])]
      /\ UNCHANGED <<mouse, set, step, obf>>
  BY CommandsOK DEF SendCommand, Ps2TypeOK
<1>2. /\ Commands[step].to \in Ps2Hardware /\ Commands[step].reads \in 1 .. 3
      /\ Answers(Commands[step]) \in Seq(Byte)
      /\ Len(Answers(Commands[step]))
           = IF Answering(Commands[step].to) THEN Commands[step].reads ELSE 0
      /\ step = 4 => Commands[step].to = KEYBOARD /\ Answers(Commands[step]) = <<\hFA, set>>
  BY <1>1, AnswersOK DEF LineInv
<1>3. PICK to \in Ps2Hardware, bytes \in Seq(Byte) : to = Commands[step].to /\ bytes = Answers(Commands[step])
  BY <1>2
<1>4. ASSUME NEW d \in Ps2Hardware PROVE Pending(d)' = IF d = to THEN bytes ELSE <<>>
  <2>1. Pending(d) = <<>>
    BY <1>1 DEF TalkInv
  <2>2. Pending(d)' = IF d = to THEN Pending(d) \o bytes ELSE Pending(d)
    BY <1>1, <1>3, SaidPending
  <2> QED BY <2>1, <2>2
<1>5. \A d : Answering(d)' <=> Answering(d)
  BY <1>1 DEF Answering
<1>6. ASSUME NEW d \in Ps2Hardware
      PROVE  Len(Pending(d)') = IF d = to /\ Answering(d) THEN reads' ELSE 0
  BY <1>1, <1>2, <1>3, <1>4
<1>7. step = 4 => Pending(KEYBOARD)'[Len(Pending(KEYBOARD)')] = set
  <2>1. step = 4 => Pending(KEYBOARD)' = <<\hFA, set>>
    BY <1>2, <1>3, <1>4
  <2>2. Len(<<\hFA, set>>) = 2 /\ <<\hFA, set>>[2] = set
    OBVIOUS
  <2> QED BY <2>1, <2>2
<1> QED BY <1>1, <1>2, <1>3, <1>5, <1>6, <1>7 DEF TalkInv

(* Every byte read is one of the answer; the last one of all is the set.   *)
LEMMA ReadKeepsTalk ==
  ASSUME Ps2TypeOK, LineInv, TalkInv, ReadAnswer
  PROVE  TalkInv'
<1> SUFFICES ASSUME late' = 0 PROVE TalkInv'
  BY DEF TalkInv
<1>1. /\ ps2_pc = "init" /\ reads > 0 /\ obf' = EMPTY
      /\ port' = (IF obf # EMPTY THEN obf.byte ELSE port)
      /\ reads' = reads - 1 /\ step' = (IF reads = 1 THEN step + 1 ELSE step)
      /\ scancode_set' = (IF step = Len(Commands) /\ reads = 1 THEN port' ELSE scancode_set)
      /\ UNCHANGED <<mouse, set, queue>>
  BY DEF ReadAnswer
<1>2. late = 0 /\ ~(obf = EMPTY /\ \E d \in DOMAIN queue : queue[d] # <<>>)
  BY LateCounts DEF ReadAnswer, Ps2TypeOK
<1>3. step \in 1 .. 4 /\ reads \in 1 .. 3
  BY <1>1, CommandsOK DEF Ps2TypeOK, LineInv
<1>4. PICK to \in Ps2Hardware : to = Commands[step].to
  BY <1>3, AnswersOK DEF LineInv
<1>5. \A d \in Ps2Hardware : Len(Pending(d)) = IF d = to /\ Answering(d) THEN reads ELSE 0
  BY <1>1, <1>2, <1>4 DEF TalkInv
<1>6. \A d : Answering(d)' <=> Answering(d)
  BY <1>1 DEF Answering
<1>7. step = 4 => to = KEYBOARD
  BY <1>4, CommandsOK
<1>8. KEYBOARD \in Ps2Hardware /\ Answering(KEYBOARD)
  BY DEF Ps2Hardware, Answering
<1>9. \A d \in Ps2Hardware : Pending(d)' \in Seq(Byte)
  <2> TAKE d \in Ps2Hardware
  <2>1. InBuffer(d)' = <<>> /\ queue'[d] = queue[d]
    BY <1>1 DEF InBuffer
  <2>2. queue[d] \in Seq(Byte)
    BY PendingTyped
  <2> QED BY <2>1, <2>2 DEF Pending
<1>10. CASE obf = EMPTY
  <2>1. ASSUME NEW d \in Ps2Hardware PROVE Pending(d) = <<>> /\ Pending(d)' = <<>>
    <3>1. queue[d] = <<>>
      BY <1>2, <1>10 DEF LineInv
    <3>2. InBuffer(d) = <<>> /\ InBuffer(d)' = <<>>
      BY <1>1, <1>10 DEF InBuffer
    <3> QED BY <1>1, <3>1, <3>2 DEF Pending
  <2>2. ~Answering(to)
    BY <1>3, <1>5, <2>1
  <2>3. step # 4
    BY <1>7, <1>8, <2>2
  <2>4. step' # 5 /\ (reads' > 0 => step' = step) /\ (reads' > 0 => step' # 4)
    BY <1>1, <1>3, <2>3
  <2>5. \A d \in Ps2Hardware : Len(Pending(d)') = 0 /\ Pending(d)' = <<>>
    BY <2>1
  <2> QED BY <1>4, <1>6, <2>2, <2>4, <2>5 DEF TalkInv
<1>11. CASE obf # EMPTY
  <2>1. PICK f \in Ps2Hardware, b \in Byte : f = obf.from /\ b = obf.byte
    BY <1>11 DEF LineInv, Held
  <2>2. \A d \in Ps2Hardware : Pending(d) = IF d = f THEN <<b>> \o Pending(d)' ELSE Pending(d)'
    BY <1>1, <1>11, <2>1, TakePending
  <2>3. \A q \in Seq(Byte) : Len(<<b>> \o q) = Len(q) + 1 /\ (<<b>> \o q)[1] = b
    OBVIOUS
  <2>4. f = to /\ Answering(f)
    <3>1. Len(Pending(f)) > 0
      BY <1>9, <2>2, <2>3
    <3> QED BY <1>5, <3>1
  <2>5. \A d \in Ps2Hardware : Len(Pending(d)') = IF d = to THEN reads - 1 ELSE 0
    BY <1>3, <1>5, <1>9, <2>2, <2>3, <2>4
  <2>6. reads' = 0 => \A d \in Ps2Hardware : Pending(d)' = <<>>
    <3>1. \A q \in Seq(Byte) : Len(q) = 0 => q = <<>>
      OBVIOUS
    <3> QED BY <1>1, <1>3, <1>9, <2>5, <3>1
  <2>7. reads' > 0 => step' = step /\ \A d \in Ps2Hardware :
          Len(Pending(d)') = IF d = Commands[step].to /\ Answering(d) THEN reads' ELSE 0
    BY <1>1, <1>3, <1>4, <2>4, <2>5
  <2>8. ASSUME step = 4
        PROVE  /\ reads = 1 => b = set
               /\ reads > 1 => Pending(KEYBOARD)'[Len(Pending(KEYBOARD)')] = set
    <3>1. PICK q \in Seq(Byte) : q = Pending(KEYBOARD)'
      BY <1>8, <1>9
    <3>2. Pending(KEYBOARD) = <<b>> \o q /\ Len(q) = reads - 1
      BY <1>7, <1>8, <2>2, <2>4, <2>5, <2>8, <3>1
    <3>3. (<<b>> \o q)[reads] = set
      BY <1>1, <1>2, <1>3, <2>3, <2>8, <3>2 DEF TalkInv
    <3>4. reads > 1 => (<<b>> \o q)[reads] = q[reads - 1]
      BY <1>3, <3>2
    <3> QED BY <1>3, <2>3, <3>1, <3>2, <3>3, <3>4
  <2>9. step' = 5 => reads' = 0 /\ scancode_set' = set
    BY <1>1, <1>3, <1>11, <2>1, <2>8, CommandsOK
  <2>10. step' = 4 /\ reads' > 0 => Pending(KEYBOARD)'[Len(Pending(KEYBOARD)')] = set
    BY <1>1, <1>3, <2>8
  <2> QED BY <1>1, <1>6, <2>6, <2>7, <2>9, <2>10 DEF TalkInv
<1> QED BY <1>10, <1>11

(* The dialogue stays in step; after it, nobody speaks before its line is  *)
(* open without being late.                                                *)
LEMMA StepKeepsTalk ==
  ASSUME Ps2TypeOK, LineInv, TalkInv, [Ps2Next]_ps2Vars
  PROVE  TalkInv'
<1>1. CASE SendCommand
  BY <1>1, SendKeepsTalk
<1>2. CASE ReadAnswer
  BY <1>2, ReadKeepsTalk
<1>3. CASE OpenLine
  <2>1. ps2_pc' # "init"
    BY <1>3 DEF OpenLine
  <2> QED BY <2>1 DEF TalkInv
<1>4. ASSUME NEW d \in Ps2Hardware, Interrupt(d) PROVE TalkInv'
  <2>1. ps2_pc' # "init"
    BY <1>4 DEF Interrupt, init
  <2> QED BY <2>1 DEF TalkInv
<1>5. ASSUME NEW d \in Ps2Hardware, Deliver(d) PROVE TalkInv'
  <2>1. \A e \in Ps2Hardware : Pending(e)' = Pending(e)
    BY <1>5, DeliverPending
  <2>2. UNCHANGED <<mouse, set, ps2_pc, step, reads, scancode_set, late>>
    BY <1>5 DEF Deliver, init
  <2>3. KEYBOARD \in Ps2Hardware /\ \A e : Answering(e)' <=> Answering(e)
    BY <2>2 DEF Ps2Hardware, Answering
  <2>4. Pending(KEYBOARD)' = Pending(KEYBOARD)
    BY <2>1, <2>3
  <2> QED BY <2>1, <2>2, <2>3, <2>4 DEF TalkInv
<1>6. ASSUME NEW d, NEW bytes, Spoken(d, bytes) PROVE TalkInv'
  <2>1. ps2_pc' = "init" => late' # 0
    BY <1>6, LateCounts DEF Spoken, init, LineInv, Ps2TypeOK
  <2> QED BY <2>1 DEF TalkInv
<1>7. CASE User
  BY <1>6, <1>7 DEF User, Press, Release, Move
<1>8. CASE UNCHANGED ps2Vars
  <2>1. UNCHANGED <<mouse, set, ps2_pc, step, reads, scancode_set, late, obf, queue>>
    BY <1>8 DEF ps2Vars, init
  <2> QED BY <2>1 DEF TalkInv, Pending, InBuffer, Answering
<1> QED BY <1>1, <1>2, <1>3, <1>4, <1>5, <1>7, <1>8 DEF Ps2Next, Ps2Driver, Ps2Hardware

-----------------------------------------------------------------------------
(* What is typed.                                                          *)

(* A key that goes down or up changes what has been typed and is held as   *)
(* WithKey says, unless keys are merged.                                   *)
LEMMA KeyMeans ==
  ASSUME NEW k \in DOMAIN Code, NEW press \in BOOLEAN, NEW g, Means(g), merged \in BOOLEAN,
         ref' = Typed(k, press), merged' = (merged \/ Merges(k, press)), press \/ k \in down,
         down' = IF press THEN down \cup {k} ELSE down \ {k}
  PROVE  Means(WithKey(g, k, press))'
<1>1. PICK x : x = WithKey(g, k, press)
  OBVIOUS
<1>2. x = Released(x, FALSE)
  BY <1>1 DEF WithKey, Released
<1>3. /\ x.shift = IF k \in ShiftKeys THEN press ELSE g.shift
      /\ x.ctrl = IF k \in CtrlKeys THEN press ELSE g.ctrl
      /\ x.alt = IF k = "lalt" THEN press ELSE g.alt
      /\ x.caps = IF k = "caps" /\ press THEN ~g.caps ELSE g.caps
  BY <1>1 DEF WithKey
<1>4. /\ g.shift \in BOOLEAN /\ g.ctrl \in BOOLEAN /\ g.alt \in BOOLEAN /\ g.caps \in BOOLEAN
      /\ (g.shift => Shifted) /\ (g.ctrl => down \cap CtrlKeys # {}) /\ (g.alt => "lalt" \in down)
  BY DEF Means
<1>5. x.shift \in BOOLEAN /\ x.ctrl \in BOOLEAN /\ x.alt \in BOOLEAN /\ x.caps \in BOOLEAN
  BY <1>3, <1>4
<1>6. /\ x.shift => Shifted'
      /\ x.ctrl => down' \cap CtrlKeys # {}
      /\ x.alt => "lalt" \in down'
  BY <1>3, <1>4 DEF Shifted, ShiftKeys, CtrlKeys
<1>7. ASSUME ~merged' PROVE x = Goal'
  <2>1. g = Goal /\ ~Merges(k, press)
    BY <1>7 DEF Means
  <2>2. ref' = Typed(k, press)
    OBVIOUS
  <2>3. ASSUME NEW twins, twins \in {ShiftKeys, CtrlKeys}
        PROVE  /\ k \in twins => ((down' \cap twins # {}) <=> press)
               /\ k \notin twins => ((down' \cap twins # {}) <=> (down \cap twins # {}))
    <3>1. k \in twins => \A u \in twins, v \in twins : u # k /\ v # k => u = v
      BY <2>3 DEF ShiftKeys, CtrlKeys
    <3>2. ASSUME press = TRUE
          PROVE  /\ k \in twins => down' \cap twins # {}
                 /\ k \notin twins => ((down' \cap twins # {}) <=> (down \cap twins # {}))
      BY <3>2
    <3>3. ASSUME press = FALSE
          PROVE  /\ k \in twins => down' \cap twins = {}
                 /\ k \notin twins => ((down' \cap twins # {}) <=> (down \cap twins # {}))
      <4>1. down' = down \ {k}
        BY <3>3
      <4>2. k \in twins => ~(twins \subseteq down)
        BY <2>1, <2>3, <3>3 DEF Merges
      <4>3. ASSUME k \in twins, NEW u \in down' \cap twins PROVE FALSE
        <5>1. u # k /\ u \in down /\ u \in twins
          BY <4>1, <4>3
        <5>2. PICK y \in twins : y \notin down
          BY <4>2, <4>3
        <5>3. y = k
          BY <3>1, <4>3, <5>1, <5>2
        <5>4. k \in down
          BY <3>3
        <5> QED BY <5>2, <5>3, <5>4
      <4> QED BY <4>1, <4>3
    <3> QED BY <3>2, <3>3
  <2>4. (Shifted' <=> IF k \in ShiftKeys THEN press ELSE Shifted)
    BY <2>3 DEF Shifted
  <2>5. ((down' \cap CtrlKeys # {}) <=> IF k \in CtrlKeys THEN press ELSE (down \cap CtrlKeys # {}))
    BY <2>3
  <2>6. ref'.caps = IF k = "caps" /\ press THEN ~ref.caps ELSE ref.caps
    BY <2>1, <2>2 DEF Typed, Merges
  <2>7. ref'.out = IF press /\ k = "a"
                     THEN Append(ref.out, <<Code[k].one, IF Shifted # ref.caps THEN 1 ELSE 0>>)
                     ELSE ref.out
    BY <2>2 DEF Typed
  <2>8. /\ g.shift = Shifted /\ g.ctrl = (down \cap CtrlKeys # {}) /\ g.alt = ("lalt" \in down)
        /\ g.caps = ref.caps /\ g.out = ref.out
    BY <2>1 DEF Goal
  <2>9. ("lalt" \in down') <=> IF k = "lalt" THEN press ELSE ("lalt" \in down)
    OBVIOUS
  <2>10. /\ x.shift = Shifted' /\ x.ctrl = (down' \cap CtrlKeys # {}) /\ x.alt = ("lalt" \in down')
    <3>1. (x.shift <=> Shifted') /\ Shifted' \in BOOLEAN
      BY <1>3, <2>4, <2>8 DEF Shifted
    <3>2. x.ctrl <=> down' \cap CtrlKeys # {}
      BY <1>3, <2>5, <2>8
    <3>3. x.alt <=> "lalt" \in down'
      BY <1>3, <2>8, <2>9
    <3> QED BY <1>5, <3>1, <3>2, <3>3
  <2>11. x.caps = ref'.caps /\ x.out = ref'.out /\ x.release = FALSE
    BY <1>1, <2>6, <2>7, <2>8 DEF WithKey
  <2>12. x = [shift |-> x.shift, ctrl |-> x.ctrl, alt |-> x.alt, caps |-> x.caps,
              release |-> x.release, out |-> x.out]
    BY <1>1 DEF WithKey
  <2> QED BY <2>10, <2>11, <2>12 DEF Goal
<1>8. Means(x)'
  BY <1>2, <1>5, <1>6, <1>7 DEF Means
<1> QED BY <1>1, <1>8

(* Nothing else changes it.                                                *)
LEMMA MeansStays ==
  ASSUME NEW g, Means(g), UNCHANGED <<down, ref, merged>>
  PROVE  Means(g)'
BY DEF Means, Goal, Shifted

(* The driver's own steps open the keyboard's line with nothing on its way *)
(* and the right set.                                                      *)
LEMMA DriverKeepsTyped ==
  ASSUME Ps2TypeOK, LineInv, TalkInv, TypedInv, Ps2Driver
  PROVE  TypedInv'
<1> SUFFICES ASSUME late' = 0 PROVE TypedInv'
  BY DEF TypedInv
<1>1. UNCHANGED <<set, kbd, wild, down, ref, merged>>
  BY DEF Ps2Driver, SendCommand, ReadAnswer, OpenLine, user
<1>2. ASSUME NEW s, Follows(s) PROVE Follows(s)'
  BY <1>1, <1>2 DEF Follows, kbd
<1>3. late = 0
  BY LateCounts DEF Ps2Driver, SendCommand, ReadAnswer, OpenLine, Ps2TypeOK
<1>4. PICK g : Means(g) /\ Reaches(g)
  BY <1>3 DEF TypedInv
<1>5. Means(g)'
  BY <1>1, <1>4, MeansStays
<1>6. CASE SendCommand \/ ReadAnswer
  <2>1. ps2_pc = "init" /\ ps2_pc' = "init"
    BY <1>6 DEF SendCommand, ReadAnswer
  <2>2. Follows(g)'
    BY <1>2, <1>4, <2>1 DEF Reaches
  <2>3. Reaches(g)'
    BY <2>1, <2>2 DEF Reaches
  <2> QED BY <1>5, <2>1, <2>3 DEF TypedInv
<1>7. CASE OpenLine
  <2>1. ps2_pc' # "init" /\ UNCHANGED <<step, reads, scancode_set, obf, queue>>
    BY <1>7 DEF OpenLine
  <2>2. Pending(KEYBOARD)' = Pending(KEYBOARD)
    BY <2>1 DEF Pending, InBuffer
  <2>3. scancode_set = set /\ \E s : Follows(s) /\ Leads(set, s, Pending(KEYBOARD), g)
    <3>1. CASE ps2_pc = "init"
      <4>1. step = 5
        BY <1>7, <3>1, CommandsOK DEF OpenLine, Ps2TypeOK
      <4>2. scancode_set = set /\ Pending(KEYBOARD) = <<>>
        BY <1>3, <3>1, <4>1 DEF TalkInv, Ps2Hardware
      <4>3. Follows(g)
        BY <1>4, <3>1 DEF Reaches
      <4>4. Leads(set, g, <<>>, g)
        BY LeadsNowhere
      <4> QED BY <4>2, <4>3, <4>4
    <3>2. CASE ps2_pc # "init"
      BY <1>3, <1>4, <3>2 DEF TypedInv, Reaches
    <3> QED BY <3>1, <3>2
  <2>4. PICK s : Follows(s) /\ Leads(set, s, Pending(KEYBOARD), g)
    BY <2>3
  <2>5. Follows(s)' /\ Leads(set', s, Pending(KEYBOARD)', g)
    BY <1>1, <1>2, <2>2, <2>4
  <2>6. Reaches(g)'
    BY <2>1, <2>5 DEF Reaches
  <2> QED BY <1>1, <1>5, <2>1, <2>3, <2>6 DEF TypedInv
<1> QED BY <1>6, <1>7 DEF Ps2Driver

(* A byte that is delivered or taken leaves the rest of the way.           *)
LEMMA BytesKeepTyped ==
  ASSUME Ps2TypeOK, LineInv, TypedInv, NEW d \in Ps2Hardware, Deliver(d) \/ Interrupt(d)
  PROVE  TypedInv'
<1>0. UNCHANGED <<set, ps2_pc, scancode_set, late, down, ref, merged>>
  BY DEF Deliver, Interrupt, init, user
<1> SUFFICES ASSUME late = 0 PROVE TypedInv'
  BY <1>0 DEF TypedInv
<1>1. PICK g : Means(g) /\ Reaches(g)
  BY DEF TypedInv
<1>2. Means(g)'
  BY <1>0, <1>1, MeansStays
<1> SUFFICES Reaches(g)'
  BY <1>0, <1>2 DEF TypedInv
<1>3. KEYBOARD \in Ps2Hardware
  BY DEF Ps2Hardware
<1>4. ASSUME UNCHANGED <<kbd, wild>>, Pending(KEYBOARD)' = Pending(KEYBOARD)
      PROVE  Reaches(g)'
  <2>1. \A s : Follows(s)' <=> Follows(s)
    BY <1>4 DEF Follows, kbd
  <2>2. CASE ps2_pc = "init"
    BY <1>0, <1>1, <2>1, <2>2 DEF Reaches
  <2>3. CASE ps2_pc # "init"
    <3>1. PICK s : Follows(s) /\ Leads(set, s, Pending(KEYBOARD), g)
      BY <1>1, <2>3 DEF Reaches
    <3>2. Follows(s)' /\ Leads(set', s, Pending(KEYBOARD)', g)
      BY <1>0, <1>4, <2>1, <3>1
    <3> QED BY <1>0, <2>3, <3>2 DEF Reaches
  <2> QED BY <2>2, <2>3
<1>5. CASE Deliver(d)
  <2>1. Pending(KEYBOARD)' = Pending(KEYBOARD)
    BY <1>3, <1>5, DeliverPending
  <2>2. UNCHANGED <<kbd, wild>>
    BY <1>5 DEF Deliver
  <2> QED BY <1>4, <2>1, <2>2
<1>6. CASE Interrupt(d)
  <2>1. obf # EMPTY /\ obf.from = d /\ ps2_pc = "run"
    BY <1>6, InterruptKeepsLines DEF Interrupt
  <2>2. /\ obf' = EMPTY /\ UNCHANGED queue
        /\ \/ d = KEYBOARD /\ keyboard_handler(obf.byte)
           \/ d = MOUSE /\ UNCHANGED <<kbd, wild>>
    BY <1>6, <2>1 DEF Interrupt, HasByte
  <2>3. /\ obf.byte \in Byte /\ Pending(KEYBOARD)' \in Seq(Byte)
        /\ Pending(KEYBOARD) = IF d = KEYBOARD THEN <<obf.byte>> \o Pending(KEYBOARD)'
                                              ELSE Pending(KEYBOARD)'
    BY <1>3, <2>1, <2>2, TakePending
  <2>4. CASE d = MOUSE /\ UNCHANGED <<kbd, wild>>
    <3>1. d # KEYBOARD
      BY <2>4 DEF KEYBOARD, MOUSE
    <3> QED BY <1>4, <2>3, <2>4, <3>1
  <2>5. CASE d = KEYBOARD /\ keyboard_handler(obf.byte)
    <3>1. PICK s : Follows(s) /\ Leads(set, s, Pending(KEYBOARD), g)
      BY <1>1, <2>1 DEF Reaches
    <3>2. PICK b \in Byte, q \in Seq(Byte), sc \in {1, 2} :
            b = obf.byte /\ q = Pending(KEYBOARD)' /\ sc = set
      BY <2>3 DEF LineInv
    <3>3. scancode_set = sc
      BY <2>1, <3>2 DEF TypedInv
    <3>4. Leads(sc, s, <<b>> \o q, g)
      BY <2>3, <2>5, <3>1, <3>2
    <3>5. Leads(sc, After(sc, s, b), q, g)
      BY <3>4, LeadsFrom
    <3>6. Follows(After(sc, s, b))'
      BY <2>5, <3>1, <3>2, <3>3, HandlerFollows
    <3>7. Leads(set', After(sc, s, b), Pending(KEYBOARD)', g)
      BY <1>0, <3>2, <3>5
    <3>8. ps2_pc' # "init"
      BY <1>0, <2>1
    <3> QED BY <3>6, <3>7, <3>8 DEF Reaches
  <2> QED BY <2>2, <2>4, <2>5
<1> QED BY <1>5, <1>6

(* What a device says in time reaches an open line, and lengthens the way. *)
LEMMA SpokenReaches ==
  ASSUME Ps2TypeOK, LineInv, TypedInv, NEW d \in Ps2Hardware, NEW bytes \in Seq(Byte),
         Spoken(d, bytes), late' = 0
  PROVE  /\ late = 0 /\ ps2_pc # "init" /\ UNCHANGED <<set, ps2_pc, scancode_set>>
         /\ \A s : Follows(s) => Follows(s)'
         /\ Pending(KEYBOARD) \in Seq(Byte)
         /\ Pending(KEYBOARD)' = IF KEYBOARD = d THEN Pending(KEYBOARD) \o bytes ELSE Pending(KEYBOARD)
<1>1. late = 0 /\ d \in open_lines
  BY LateCounts DEF Spoken, Ps2TypeOK
<1>2. UNCHANGED <<set, ps2_pc, scancode_set, kbd, obf, wild>>
  BY DEF Spoken, init
<1>3. ps2_pc # "init"
  BY <1>1 DEF LineInv
<1>4. KEYBOARD \in Ps2Hardware /\ Pending(KEYBOARD) \in Seq(Byte)
  BY PendingTyped DEF Ps2Hardware
<1>5. Pending(KEYBOARD)' = IF KEYBOARD = d THEN Pending(KEYBOARD) \o bytes ELSE Pending(KEYBOARD)
  BY <1>2, <1>4, SaidPending DEF Spoken
<1>6. \A s : Follows(s) => Follows(s)'
  BY <1>2 DEF Follows, kbd
<1> QED BY <1>1, <1>2, <1>3, <1>4, <1>5, <1>6

(* A key lengthens the way, and what has been typed with it.               *)
LEMMA KeyKeepsTyped ==
  ASSUME Ps2TypeOK, LineInv, TypedInv, NEW k \in Keys, NEW press \in BOOLEAN,
         Spoken(KEYBOARD, IF press THEN MakeBytes(k) ELSE BreakBytes(k)),
         ref' = Typed(k, press), merged' = (merged \/ Merges(k, press)), press \/ k \in down,
         down' = IF press THEN down \cup {k} ELSE down \ {k}
  PROVE  TypedInv'
<1> SUFFICES ASSUME late' = 0 PROVE TypedInv'
  BY DEF TypedInv
<1>1. PICK bytes \in Seq(Byte) : bytes = IF press THEN MakeBytes(k) ELSE BreakBytes(k)
  BY KeyBytes
<1>2. /\ late = 0 /\ ps2_pc # "init" /\ UNCHANGED <<set, ps2_pc, scancode_set>>
      /\ \A s : Follows(s) => Follows(s)'
      /\ Pending(KEYBOARD) \in Seq(Byte)
      /\ Pending(KEYBOARD)' = Pending(KEYBOARD) \o bytes
  <2>1. KEYBOARD \in Ps2Hardware /\ Spoken(KEYBOARD, bytes)
    BY <1>1 DEF Ps2Hardware
  <2> QED BY <2>1, SpokenReaches
<1>3. PICK g : Means(g) /\ Reaches(g)
  BY <1>2 DEF TypedInv
<1>4. PICK s : Follows(s) /\ Leads(set, s, Pending(KEYBOARD), g)
  BY <1>2, <1>3 DEF Reaches
<1>5. k \in DOMAIN Code /\ set \in {1, 2} /\ g = Released(g, FALSE) /\ merged \in BOOLEAN
  BY <1>3, KeyBytes DEF LineInv, Means, Ps2TypeOK, Flag
<1>6. PICK p \in Seq(Byte) : p = Pending(KEYBOARD)
  BY <1>2
<1>7. Leads(set, s, p \o bytes, WithKey(g, k, press))
  <2>1. /\ Leads(set, s, p \o MakeBytes(k), WithKey(g, k, TRUE))
        /\ Leads(set, s, p \o BreakBytes(k), WithKey(g, k, FALSE))
    BY <1>4, <1>5, <1>6, KeyLeads
  <2>2. CASE press = TRUE
    BY <1>1, <2>1, <2>2
  <2>3. CASE press = FALSE
    BY <1>1, <2>1, <2>3
  <2> QED BY <2>2, <2>3
<1>8. Leads(set', s, Pending(KEYBOARD)', WithKey(g, k, press)) /\ Follows(s)'
  BY <1>2, <1>4, <1>6, <1>7
<1>9. PICK x : x = WithKey(g, k, press)
  OBVIOUS
<1>10. Reaches(x)'
  BY <1>2, <1>8, <1>9 DEF Reaches
<1>11. Means(x)'
  BY <1>3, <1>5, <1>9, KeyMeans
<1> QED BY <1>2, <1>10, <1>11 DEF TypedInv

(* The mouse changes nothing about it.                                     *)
LEMMA MoveKeepsTyped ==
  ASSUME Ps2TypeOK, LineInv, TypedInv, NEW p \in Seq(Byte), Spoken(MOUSE, p),
         UNCHANGED <<down, ref, merged>>
  PROVE  TypedInv'
<1> SUFFICES ASSUME late' = 0 PROVE TypedInv'
  BY DEF TypedInv
<1>1. MOUSE \in Ps2Hardware /\ KEYBOARD # MOUSE
  BY DEF Ps2Hardware, KEYBOARD, MOUSE
<1>2. /\ late = 0 /\ ps2_pc # "init" /\ UNCHANGED <<set, ps2_pc, scancode_set>>
      /\ \A s : Follows(s) => Follows(s)'
      /\ Pending(KEYBOARD)' = Pending(KEYBOARD)
  BY <1>1, SpokenReaches
<1>3. PICK g : Means(g) /\ Reaches(g)
  BY <1>2 DEF TypedInv
<1>4. PICK s : Follows(s) /\ Leads(set, s, Pending(KEYBOARD), g)
  BY <1>2, <1>3 DEF Reaches
<1>5. Follows(s)' /\ Leads(set', s, Pending(KEYBOARD)', g)
  BY <1>2, <1>4
<1>6. Reaches(g)' /\ Means(g)'
  BY <1>2, <1>3, <1>5, MeansStays DEF Reaches
<1> QED BY <1>2, <1>6 DEF TypedInv

-----------------------------------------------------------------------------
(* The theorems.                                                           *)

(* The invariant holds at the start.                                       *)
LEMMA InitPs2Inv == Ps2Init => Ps2Inv
<1> SUFFICES ASSUME Ps2Init PROVE Ps2Inv
  OBVIOUS
<1>1. Ps2TypeOK
  <2>1. Flag \subseteq BOOLEAN
    BY DEF Ps2Init, Flag
  <2>2. /\ ps2_pc \in {"init", "mouse", "run"} /\ step \in 1 .. Len(Commands) + 1 /\ reads \in 0 .. 3
        /\ port \in Byte /\ scancode_set \in Byte /\ mouse_cycle \in 0 .. 2
    BY CommandsOK DEF Ps2Init, Byte
  <2>3. mouse_packet \in [0 .. 2 -> Byte]
    BY DEF Ps2Init, Byte
  <2>4. open_lines = {} /\ irr = {} /\ obf = EMPTY /\ down = {} /\ late \in 0 .. MaxLate
    BY Ps2Assumption DEF Ps2Init, OpenAtFirst
  <2> QED BY <2>1, <2>2, <2>3, <2>4 DEF Ps2TypeOK
<1>2. LineInv
  BY DEF Ps2Init, LineInv, Ps2Hardware, OpenAtFirst
<1>3. TalkInv
  <2>1. \A d \in Ps2Hardware : Pending(d) = <<>>
    BY DEF Ps2Init, Pending, InBuffer, Ps2Hardware
  <2> QED BY <2>1 DEF Ps2Init, TalkInv
<1>4. TypedInv
  <2> DEFINE g == [shift |-> FALSE, ctrl |-> FALSE, alt |-> FALSE, caps |-> FALSE,
                   release |-> FALSE, out |-> <<>>]
  <2>1. /\ Shifted = FALSE /\ (down \cap CtrlKeys # {}) = FALSE /\ ("lalt" \in down) = FALSE
        /\ ref.caps = FALSE /\ ref.out = <<>>
    BY DEF Ps2Init, Shifted
  <2>2. g = Goal
    BY <2>1 DEF Goal
  <2>3. Means(g)
    BY <2>2 DEF Means, Released
  <2>4. Follows(g) /\ ps2_pc = "init"
    BY DEF Ps2Init, Follows
  <2> QED BY <2>3, <2>4 DEF TypedInv, Reaches
<1> QED BY <1>1, <1>2, <1>3, <1>4 DEF Ps2Inv

(* Every step keeps it.                                                    *)
LEMMA StepKeepsPs2Inv ==
  ASSUME Ps2Inv, [Ps2Next]_ps2Vars
  PROVE  Ps2Inv'
<1> USE DEF Ps2Inv
<1>1. TalkInv'
  BY StepKeepsTalk
<1>2. CASE Ps2Driver
  BY <1>1, <1>2, DriverKeepsLines, DriverKeepsTyped
<1>3. ASSUME NEW d \in Ps2Hardware, Interrupt(d) PROVE Ps2Inv'
  BY <1>1, <1>3, InterruptKeepsLines, BytesKeepTyped
<1>4. ASSUME NEW d \in Ps2Hardware, Deliver(d) PROVE Ps2Inv'
  BY <1>1, <1>4, DeliverKeepsLines, BytesKeepTyped
<1>5. ASSUME NEW k \in Keys, Press(k) PROVE Ps2Inv'
  <2>1. /\ Spoken(KEYBOARD, MakeBytes(k)) /\ ref' = Typed(k, TRUE)
        /\ merged' = (merged \/ Merges(k, TRUE)) /\ down' = down \cup {k}
    BY <1>5 DEF Press
  <2>2. /\ down' \subseteq Keys /\ KEYBOARD \in Ps2Hardware /\ MakeBytes(k) \in Seq(Byte)
        /\ merged' \in BOOLEAN
    BY <2>1, KeyBytes DEF Ps2TypeOK, Flag, Ps2Hardware
  <2>3. Ps2TypeOK' /\ LineInv'
    BY <2>1, <2>2, SpokenKeepsLines
  <2>4. TypedInv'
    BY <2>1, KeyKeepsTyped
  <2> QED BY <1>1, <2>3, <2>4
<1>6. ASSUME NEW k \in Keys, Release(k) PROVE Ps2Inv'
  <2>1. /\ Spoken(KEYBOARD, BreakBytes(k)) /\ ref' = Typed(k, FALSE)
        /\ merged' = (merged \/ Merges(k, FALSE)) /\ down' = down \ {k} /\ k \in down
    BY <1>6 DEF Release
  <2>2. /\ down' \subseteq Keys /\ KEYBOARD \in Ps2Hardware /\ BreakBytes(k) \in Seq(Byte)
        /\ merged' \in BOOLEAN
    BY <2>1, KeyBytes DEF Ps2TypeOK, Flag, Ps2Hardware
  <2>3. Ps2TypeOK' /\ LineInv'
    BY <2>1, <2>2, SpokenKeepsLines
  <2>4. TypedInv'
    BY <2>1, KeyKeepsTyped
  <2> QED BY <1>1, <2>3, <2>4
<1>7. ASSUME NEW p \in Moves, Move(p) PROVE Ps2Inv'
  <2>1. /\ Spoken(MOUSE, p) /\ UNCHANGED <<down, ref, merged>>
        /\ MOUSE \in Ps2Hardware /\ p \in Seq(Byte)
    BY <1>7, Ps2Assumption DEF Move, Ps2Hardware
  <2>2. Ps2TypeOK' /\ LineInv'
    BY <2>1, SpokenKeepsLines DEF Ps2TypeOK, Flag
  <2>3. TypedInv'
    BY <2>1, MoveKeepsTyped
  <2> QED BY <1>1, <2>2, <2>3
<1>8. CASE UNCHANGED ps2Vars
  <2>1. UNCHANGED <<mouse, set, init, port, kbd, mse, open_lines, irr, obf, queue, user, late, stray, wild>>
    BY <1>8 DEF ps2Vars
  <2>2. Ps2TypeOK' /\ LineInv'
    BY <2>1 DEF Ps2TypeOK, LineInv, Flag, init, kbd, mse, user
  <2>3. \A g : Means(g) => Means(g)'
    BY <2>1, MeansStays DEF user
  <2>4. UNCHANGED <<set, ps2_pc, scancode_set, Pending(KEYBOARD), late>>
    BY <2>1 DEF init, Pending, InBuffer
  <2>5. \A s : Follows(s) => Follows(s)'
    BY <2>1 DEF Follows, kbd
  <2>6. \A g : Reaches(g) => Reaches(g)'
    BY <2>4, <2>5 DEF Reaches
  <2>7. TypedInv'
    BY <2>3, <2>4, <2>6 DEF TypedInv
  <2> QED BY <1>1, <2>2, <2>7
<1> QED BY <1>2, <1>3, <1>4, <1>5, <1>6, <1>7, <1>8 DEF Ps2Next, User, Ps2Hardware

(* The lines, the dialogue and the bytes on their way stay in step.        *)
THEOREM Ps2Invariance == Ps2Spec => []Ps2Inv
BY InitPs2Inv, StepKeepsPs2Inv, PTL DEF Ps2Spec

(* The driver reads its devices right (detect_scancode_set,                *)
(* keyboard_handler) as long as they speak in time: the set it has         *)
(* detected is the keyboard's, and once every byte is taken, characters    *)
(* and modifiers are those of the keys typed and held, unless keys were    *)
(* merged; no modifier ever stays on after its keys.                       *)
THEOREM InputIsRight == Ps2Spec => []InputCorrect
<1>1. Ps2Inv => InputCorrect
  <2> SUFFICES ASSUME Ps2Inv PROVE InputCorrect
    OBVIOUS
  <2>1. SetDetected
    BY DEF Ps2Inv, TypedInv, SetDetected
  <2>2. ASSUME Quiet, late = 0 PROVE \E g : Means(g) /\ Follows(g)
    <3>1. ps2_pc # "init" /\ Pending(KEYBOARD) = <<>>
      BY <2>2 DEF Quiet, Pending, InBuffer, Ps2Inv, LineInv, Ps2Hardware
    <3>2. PICK g : Means(g) /\ Reaches(g)
      BY <2>2 DEF Ps2Inv, TypedInv
    <3>3. PICK s : Follows(s) /\ Leads(set, s, <<>>, g)
      BY <3>1, <3>2 DEF Reaches
    <3>4. s = g
      BY <3>3, LeadsNowhere
    <3> QED BY <3>2, <3>3, <3>4
  <2>3. TypedArrives
    <3> SUFFICES ASSUME Quiet, late = 0, ~wild, ~merged
                 PROVE  /\ out = ref.out
                        /\ shift_pressed = Shifted /\ ctrl_pressed = (down \cap CtrlKeys # {})
                        /\ alt_pressed = ("lalt" \in down) /\ capslock_on = ref.caps
      BY DEF TypedArrives
    <3>1. PICK g : Means(g) /\ Follows(g)
      BY <2>2
    <3>2. g = Goal
      BY <3>1 DEF Means
    <3>3. /\ g.shift = Shifted /\ g.ctrl = (down \cap CtrlKeys # {}) /\ g.alt = ("lalt" \in down)
          /\ g.caps = ref.caps /\ g.out = ref.out
      BY <3>2 DEF Goal
    <3>4. /\ shift_pressed = g.shift /\ ctrl_pressed = g.ctrl /\ alt_pressed = g.alt
          /\ capslock_on = g.caps /\ out = g.out
      BY <3>1 DEF Follows
    <3> QED BY <3>3, <3>4
  <2>4. NoStuckModifier
    BY <2>2 DEF NoStuckModifier, Follows, Means, Shifted
  <2> QED BY <2>1, <2>3, <2>4 DEF InputCorrect, Ps2Inv
<1> QED BY <1>1, Ps2Invariance, PTL

(* No handler takes a byte of the other device, though ps2_irq_handler and *)
(* the handlers only look whether there is one, and though a device may    *)
(* speak too late or too early.                                            *)
THEOREM HandlersTakeOwnBytes == Ps2Spec => []OwnBytes
<1>1. Ps2Inv => OwnBytes
  BY DEF Ps2Inv, LineInv, OwnBytes
<1> QED BY <1>1, Ps2Invariance, PTL
=============================================================================
