--------------------------- MODULE DeviceManager ---------------------------
(***************************************************************************)
(* How the kernel finds its devices: the table of drivers/                 *)
(* device_manager.c, the detection that fills it (hw_detect.c, hw_ps2.c,   *)
(* hw_pci.c), the binding, probing and initialisation of drivers, the      *)
(* devices kmain picks by name, and who an interrupt is dispatched to.     *)
(*                                                                         *)
(* Boot is one thread with interrupts off; what is not known beforehand is *)
(* the machine (hw, chosen in Init), which initialisations succeed, and    *)
(* whether kmalloc still has memory.  The records behind os_data are the   *)
(* hardware's description; driver_data is how often a driver has set up    *)
(* its data for the device.                                                *)
(***************************************************************************)
EXTENDS Integers, Sequences

CONSTANTS
  MAX_DEVICES,
  FUNCTIONS,    \* functions a device of PCI may have: 8, scaled down
  Machines,     \* descriptions of the hardware
  NULL,
  ABSENT        \* a function that PCI configuration space does not show

VARIABLES
  hw,           \* the machine
  pc, place,    \* the phase of kmain, where its loop over functions, displays or devices is
  devices,      \* g_dm.devices[0 .. device_count - 1]
  drivers,      \* g_dm.drivers[0 .. driver_count - 1]
  globals,      \* g_rtc_dev, g_serial_dev, g_fb_dev and the device behind g_nvme
  g_nvme_device_count,
  unmasked,     \* interrupt lines the IOAPIC lets through
  gates,        \* interrupt lines whose vector has a gate in the IDT
  served        \* who the last interrupt was dispatched to

vars == <<hw, pc, place, devices, drivers, globals, g_nvme_device_count, unmasked, gates, served>>

(***************************************************************************)
(* Drivers and devices.                                                    *)
(***************************************************************************)
Driver == [rtc         |-> [bus |-> "platform", class |-> "misc",    irq_handler |-> FALSE],
           serial      |-> [bus |-> "platform", class |-> "char",    irq_handler |-> TRUE],
           framebuffer |-> [bus |-> "platform", class |-> "display", irq_handler |-> FALSE],
           ps2         |-> [bus |-> "ps2",      class |-> "input",   irq_handler |-> TRUE],
           nvme        |-> [bus |-> "pci",      class |-> "block",   irq_handler |-> FALSE]]
Drivers == DOMAIN Driver

(* What configuration space says of a function, and of a machine.          *)
PciFunction == [code : 0 .. 255, nvme : BOOLEAN, irq : 0 .. 255]
PciSlot == [fn : [1 .. FUNCTIONS -> PciFunction \cup {ABSENT}], multifunction : BOOLEAN]
Machine ==
  [serial : BOOLEAN, madt : BOOLEAN, selftest : BOOLEAN, port1 : BOOLEAN,
   dual_channel : BOOLEAN, port2 : BOOLEAN, framebuffers : Nat, pci : Seq(PciSlot)]

(* There is room for every driver; MAX_DEVICES is 256.                     *)
ASSUME DeviceAssumption ==
  /\ MAX_DEVICES \in Nat /\ MAX_DEVICES >= 5
  /\ FUNCTIONS \in Nat \ {0}
  /\ Machines \subseteq Machine
  /\ NULL \notin Nat /\ NULL \notin Drivers /\ NULL \notin PciFunction

IRQ_KEYBOARD == 1
IRQ_COM1 == 4
IRQ_MOUSE == 12

Device(name, bus, class, irq, info) ==
  [name |-> name, bus |-> bus, class |-> class, irq |-> irq, os_data |-> info,
   drv |-> NULL, initialized |-> FALSE, driver_data |-> 0]

(* The class codes of PCI that have a driver class of their own.           *)
PciClass(code) ==
  CASE code = 1 -> "block" [] code = 2 -> "net" [] code = 3 -> "display"
    [] code = 9 -> "input" [] OTHER -> "misc"

(* A device of PCI or PS/2 gets a copy of its description, or NULL when    *)
(* kmalloc fails.                                                          *)
Copied(info) == {info, NULL}

PciDevice(fn, info) == Device(<<>>, "pci", PciClass(fn.code), fn.irq, info)
Ps2Device(irq, info) ==
  Device(<<IF irq = IRQ_KEYBOARD THEN "ps2_keyboard" ELSE "ps2_mouse">>, "ps2", "input", irq, info)
Framebuffer == Device(<<"framebuffer">>, "platform", "display", 0, NULL)

(* The first of a set of places in a table, NULL if there is none.         *)
First(places) ==
  IF places = {} THEN NULL ELSE CHOOSE k \in places : \A j \in places : k <= j

FindByName(devs, name) == First({k \in DOMAIN devs : devs[k].name = name})
FindByIrq(devs, irq) == First({k \in DOMAIN devs : devs[k].irq = irq /\ devs[k].initialized})

(* A full table drops the device, whoever found it.                        *)
Register(devs, d) == IF Len(devs) >= MAX_DEVICES THEN devs ELSE Append(devs, d)

RegisterPlatform(devs, name, class) ==
  IF FindByName(devs, <<name>>) # NULL THEN devs
  ELSE Register(devs, Device(<<name>>, "platform", class, 0, NULL))

RegisterDriver(ds, d) ==
  IF Len(ds) >= MAX_DEVICES \/ \E k \in DOMAIN ds : ds[k] = d THEN ds ELSE Append(ds, d)

(* register_builtin_drivers                                                *)
RegisterBuiltin(ds) ==
  LET rtc == RegisterDriver(ds, "rtc")
      serial == RegisterDriver(rtc, "serial")
      framebuffer == RegisterDriver(serial, "framebuffer")
      ps2 == RegisterDriver(framebuffer, "ps2")
  IN  RegisterDriver(ps2, "nvme")

Matching(dev) ==
  First({k \in DOMAIN drivers : /\ Driver[drivers[k]].bus = dev.bus
                                /\ Driver[drivers[k]].class = dev.class})
Bind(dev) ==
  IF dev.drv # NULL \/ Matching(dev) = NULL THEN dev
  ELSE [dev EXCEPT !.drv = drivers[Matching(dev)]]

(***************************************************************************)
(* The operations of the drivers.                                          *)
(***************************************************************************)
(* probe: is the hardware there, and of the driver's kind?                 *)
Probe(dev) ==
  CASE dev.drv = "serial" -> hw.serial
    [] dev.drv = "nvme"   -> dev.os_data.nvme
    [] OTHER -> TRUE

(* The probes of these drivers read the copy of the description, and their *)
(* handlers and inits do so again; they do not look whether there is one.  *)
NeedsCopy(dev) == dev.drv \in {"ps2", "nvme"}

(* Whether init may return 0 and whether it may fail: a driver fails when  *)
(* its memory or its mapping does, the clock when three calibrations in a  *)
(* row give no plausible frequency.                                        *)
InitResults(dev) == IF dev.drv = "ps2" THEN {TRUE} ELSE BOOLEAN

(* Slip: a controller takes its number before it is known to work.         *)
CountEarly(dev, ok) == IF dev.drv = "nvme" THEN g_nvme_device_count + 1 ELSE g_nvme_device_count

CountNvme(dev, ok) ==
  IF dev.drv = "nvme" /\ ok THEN g_nvme_device_count + 1 ELSE g_nvme_device_count

(* The device after a successful init.  An NVMe device whose name cannot   *)
(* be allocated is called nvme?.                                           *)
NewNames(dev) ==
  CASE dev.drv = "framebuffer" -> {<<"fb0">>}
    [] dev.drv = "nvme" -> {<<"nvme", g_nvme_device_count>>, <<"nvme?">>}
    [] OTHER -> {dev.name}

(* ps2_init keeps no data of its own.                                      *)
KeepsData(dev) == dev.drv # "ps2"

Ready(dev, name) ==
  [dev EXCEPT !.initialized = TRUE, !.name = name,
              !.driver_data = IF KeepsData(dev) THEN @ + 1 ELSE @,
              !.irq = IF dev.drv = "serial" THEN IRQ_COM1 ELSE @]

(* The lines a driver lets through, and the gates it sets: the serial      *)
(* driver sets none.                                                       *)
Lines(dev) == IF dev.drv = "serial" THEN {IRQ_COM1} ELSE IF dev.drv = "ps2" THEN {dev.irq} ELSE {}
GatesOf(dev) == IF dev.drv = "ps2" THEN {dev.irq} \cap {IRQ_KEYBOARD, IRQ_MOUSE} ELSE {}

(***************************************************************************)
(* The phases of kmain and device_manager_init, in their order.            *)
(***************************************************************************)
(* Slip: PCI is scanned before the PS/2 controller.                        *)
PhasesPciFirst(p) ==
  CASE p = "apic" -> "pci" [] p = "pci" -> "ps2" [] p = "ps2" -> "fb"
    [] p = "fb" -> "probe" [] p = "probe" -> "init" [] OTHER -> "globals"

NextPhase(p) ==
  CASE p = "apic" -> "ps2" [] p = "ps2" -> "pci" [] p = "pci" -> "fb"
    [] p = "fb" -> "probe" [] p = "probe" -> "init" [] OTHER -> "globals"

(***************************************************************************)
(* Early initialisation, before the interrupt controllers: the clock, for  *)
(* the time stamps.  The result of its probe is not looked at.             *)
(***************************************************************************)
device_manager_early_init ==
  /\ pc = "early"
  /\ \E ok \in BOOLEAN :
       LET found == RegisterPlatform(RegisterPlatform(<<>>, "rtc", "misc"), "serial", "char")
           rtc == FindByName(found, <<"rtc">>)
           bound == [found[rtc] EXCEPT !.drv = "rtc"]
       IN /\ drivers' = RegisterDriver(<<>>, "rtc")
          /\ devices' = [found EXCEPT ![rtc] = IF ok THEN Ready(bound, bound.name) ELSE bound]
          /\ globals' = IF ok THEN [globals EXCEPT !.rtc = rtc] ELSE globals
  /\ pc' = "apic"
  /\ UNCHANGED <<hw, place, g_nvme_device_count, unmasked, gates, served>>

(* idt_init, ioapic_init and lapic_init: no gate, every line masked.  A    *)
(* machine without an ACPI MADT stops here.                                *)
ioapic_init ==
  /\ pc = "apic"
  /\ gates' = {}
  /\ IF hw.madt THEN pc' = NextPhase(pc) /\ unmasked' = {} ELSE pc' = "panic" /\ UNCHANGED unmasked
  /\ UNCHANGED <<hw, place, devices, drivers, globals, g_nvme_device_count, served>>

(***************************************************************************)
(* Detection.  The order is the order of the table.                        *)
(***************************************************************************)
hw_detect_ps2_scan ==
  /\ pc = "ps2"
  /\ \E one \in Copied(IRQ_KEYBOARD), two \in Copied(IRQ_MOUSE) :
       devices' =
         LET first == IF hw.selftest /\ hw.port1
                        THEN Register(devices, Ps2Device(IRQ_KEYBOARD, one)) ELSE devices
         IN IF hw.selftest /\ hw.dual_channel /\ hw.port2
              THEN Register(first, Ps2Device(IRQ_MOUSE, two)) ELSE first
  /\ pc' = NextPhase(pc) /\ place' = 1
  /\ UNCHANGED <<hw, drivers, globals, g_nvme_device_count, unmasked, gates, served>>

(* The scan of a slot sees a function: one behind function 0 only if there *)
(* is a function 0 and it says that there are several.                     *)
Seen(slot, func) ==
  /\ slot.fn[1] # ABSENT /\ slot.fn[func] # ABSENT
  /\ func = 1 \/ slot.multifunction

(* One function after the other, slot by slot.  Without memory for what is *)
(* read of it, a function is passed over.                                  *)
hw_detect_pci_scan ==
  /\ pc = "pci"
  /\ IF place > FUNCTIONS * Len(hw.pci)
       THEN pc' = NextPhase(pc) /\ place' = 1 /\ UNCHANGED devices
       ELSE LET slot == hw.pci[((place - 1) \div FUNCTIONS) + 1]
                func == ((place - 1) % FUNCTIONS) + 1
            IN /\ \/ UNCHANGED devices
                  \/ /\ Seen(slot, func)
                     /\ \E info \in Copied(slot.fn[func]) :
                          devices' = Register(devices, PciDevice(slot.fn[func], info))
               /\ place' = place + 1 /\ UNCHANGED pc
  /\ UNCHANGED <<hw, drivers, globals, g_nvme_device_count, unmasked, gates, served>>

(* The displays of the boot loader, then the other drivers.                *)
register_framebuffers ==
  /\ pc = "fb"
  /\ IF place > hw.framebuffers
       THEN /\ drivers' = RegisterBuiltin(drivers)
            /\ pc' = NextPhase(pc) /\ place' = 1 /\ UNCHANGED devices
       ELSE /\ devices' = Register(devices, Framebuffer)
            /\ place' = place + 1 /\ UNCHANGED <<pc, drivers>>
  /\ UNCHANGED <<hw, globals, g_nvme_device_count, unmasked, gates, served>>

(***************************************************************************)
(* Probing and initialisation, one device of the table after the other.    *)
(***************************************************************************)
PhaseEnds(p) ==
  /\ pc = p /\ place > Len(devices)
  /\ pc' = NextPhase(p) /\ place' = 1
  /\ UNCHANGED <<hw, devices, drivers, globals, g_nvme_device_count, unmasked, gates, served>>

(* Slip: a device that does not answer keeps its driver.                   *)
ProbedKeeps(dev) == IF dev.initialized THEN dev ELSE Bind(dev)

Probed(dev) ==
  IF dev.initialized THEN dev
  ELSE IF Bind(dev).drv # NULL /\ ~Probe(Bind(dev)) THEN [dev EXCEPT !.drv = NULL]
  ELSE Bind(dev)

(* A probe reads a description that kmalloc had no memory for: a fault     *)
(* nobody handles yet.                                                     *)
ProbeFaults(dev) ==
  ~dev.initialized /\ NeedsCopy(Bind(dev)) /\ dev.os_data = NULL

device_manager_probe_all ==
  /\ pc = "probe" /\ place <= Len(devices)
  /\ IF ProbeFaults(devices[place])
       THEN pc' = "fault" /\ UNCHANGED <<devices, place>>
       ELSE /\ devices' = [devices EXCEPT ![place] = Probed(@)]
            /\ place' = place + 1 /\ UNCHANGED pc
  /\ UNCHANGED <<hw, drivers, globals, g_nvme_device_count, unmasked, gates, served>>

Skip(dev) == dev.initialized \/ dev.drv = NULL

(* ps2_init lets its line through and sets its gate; a failed init leaves  *)
(* the device bound.                                                       *)
device_manager_init_all ==
  /\ pc = "init" /\ place <= Len(devices)
  /\ place' = place + 1
  /\ LET dev == devices[place]
     IN \/ /\ Skip(dev)
           /\ UNCHANGED <<devices, g_nvme_device_count, unmasked, gates>>
        \/ /\ ~Skip(dev)
           /\ \E ok \in InitResults(dev), name \in NewNames(dev) :
                /\ g_nvme_device_count' = CountNvme(dev, ok)
                /\ devices' = IF ok THEN [devices EXCEPT ![place] = Ready(dev, name)] ELSE devices
                /\ unmasked' = IF ok THEN unmasked \cup Lines(dev) ELSE unmasked
                /\ gates' = IF ok THEN gates \cup GatesOf(dev) ELSE gates
  /\ UNCHANGED <<hw, pc, drivers, globals, served>>

(***************************************************************************)
(* kmain picks the devices the rest of the kernel uses, and starts the     *)
(* scheduler, whose timer asks the clock for its frequency: without a      *)
(* clock that is a NULL dereference.                                       *)
(***************************************************************************)
Pick(name) ==
  LET d == FindByName(devices, name)
  IN IF d # NULL /\ devices[d].initialized THEN d ELSE NULL

set_globals ==
  /\ pc = "globals"
  /\ globals' = [globals EXCEPT !.serial = Pick(<<"serial">>), !.framebuffer = Pick(<<"fb0">>),
                                !.nvme = Pick(<<"nvme", 0>>)]
  /\ pc' = "scheduler"
  /\ UNCHANGED <<hw, place, devices, drivers, g_nvme_device_count, unmasked, gates, served>>

scheduler_start ==
  /\ pc = "scheduler"
  /\ IF globals.rtc = NULL THEN pc' = "fault" ELSE pc' = "run"
  /\ UNCHANGED <<hw, place, devices, drivers, globals, g_nvme_device_count, unmasked, gates, served>>

(* A line that is let through interrupts the program that runs.  Without a *)
(* gate that is a fault, and there is no gate for faults either.           *)
interrupt_dispatch(irq) ==
  /\ pc = "run" /\ irq \in unmasked
  /\ IF irq \in gates
       THEN LET d == FindByIrq(devices, irq)
            IN /\ served' = [irq |-> irq, dev |-> IF d # NULL /\ Driver[devices[d].drv].irq_handler
                                                    THEN d ELSE NULL]
               /\ UNCHANGED pc
       ELSE pc' = "fault" /\ UNCHANGED served
  /\ UNCHANGED <<hw, place, devices, drivers, globals, g_nvme_device_count, unmasked, gates>>

(***************************************************************************)
(* The specification.  The firmware may leave lines unmasked.              *)
(***************************************************************************)
IrqLines == {IRQ_KEYBOARD, IRQ_COM1, IRQ_MOUSE}

Init ==
  /\ hw \in Machines
  /\ pc = "early" /\ place = 1
  /\ devices = <<>> /\ drivers = <<>>
  /\ globals = [rtc |-> NULL, serial |-> NULL, framebuffer |-> NULL, nvme |-> NULL]
  /\ g_nvme_device_count = 0
  /\ unmasked \in {{}, IrqLines}
  /\ gates = {}
  /\ served = NULL

Boot ==
  \/ device_manager_early_init \/ ioapic_init
  \/ hw_detect_ps2_scan \/ hw_detect_pci_scan \/ register_framebuffers
  \/ device_manager_probe_all \/ PhaseEnds("probe")
  \/ device_manager_init_all \/ PhaseEnds("init")
  \/ set_globals \/ scheduler_start

Next == Boot \/ \E irq \in IrqLines : interrupt_dispatch(irq)

Spec == Init /\ [][Next]_vars

(***************************************************************************)
(* Properties.                                                             *)
(***************************************************************************)
Index == 1 .. MAX_DEVICES

(* The tables of devices and drivers stay within their bounds, and the     *)
(* early drivers, registered twice, are in the table once                  *)
(* (driver_register_verified).                                             *)
TypeOK ==
  /\ hw \in Machines
  /\ pc \in {"early", "apic", "ps2", "pci", "fb", "probe", "init", "globals", "scheduler",
             "run", "panic", "fault"}
  /\ place \in Nat \ {0}
  /\ Len(devices) <= MAX_DEVICES
  /\ \A k \in DOMAIN devices : devices[k].drv \in Drivers \cup {NULL} /\ devices[k].driver_data \in 0 .. 1
  /\ Len(drivers) <= MAX_DEVICES
  /\ \A k \in DOMAIN drivers : /\ drivers[k] \in Drivers
                               /\ \A j \in DOMAIN drivers : drivers[j] = drivers[k] => j = k
  /\ globals \in [{"rtc", "serial", "framebuffer", "nvme"} -> Index \cup {NULL}]
  /\ g_nvme_device_count \in 0 .. MAX_DEVICES
  /\ unmasked \subseteq IrqLines /\ gates \subseteq IrqLines

(* Whatever the hardware says and whichever initialisation fails, a device *)
(* that counts as initialised is bound to the driver of its own bus and    *)
(* class, its probe found the hardware, the data that its driver keeps is  *)
(* there and set up once, and so is the description that the handlers of   *)
(* ps2 and the init of nvme read without a check.                          *)
InitializedWorks ==
  /\ TypeOK
  /\ \A k \in DOMAIN devices :
       devices[k].initialized =>
         /\ devices[k].drv # NULL
         /\ Driver[devices[k].drv].bus = devices[k].bus
         /\ Driver[devices[k].drv].class = devices[k].class
         /\ Probe(devices[k])
         /\ devices[k].driver_data = IF KeepsData(devices[k]) THEN 1 ELSE 0
         /\ NeedsCopy(devices[k]) => devices[k].os_data # NULL

(* The first device of driver d that came up.                              *)
FirstWorking(d) == First({k \in DOMAIN devices : devices[k].initialized /\ devices[k].drv = d})

(* The devices that kmain picks by name are the first of their driver that *)
(* came up, and one is picked whenever one came up: a controller that      *)
(* failed before it, or a second display, does not change that.  (An NVMe  *)
(* device that got no name takes the number 0 with it.)                    *)
GlobalsFirst ==
  pc \in {"scheduler", "run"} =>
    /\ globals.serial = FirstWorking("serial")
    /\ globals.framebuffer = FirstWorking("framebuffer")
    /\ \/ globals.nvme = FirstWorking("nvme")
       \/ FirstWorking("nvme") # NULL /\ devices[FirstWorking("nvme")].name = <<"nvme?">>

(* An interrupt of the keyboard or of the mouse reaches the PS/2 device it *)
(* comes from, although PCI functions, working ones too, may have been     *)
(* given the same number: they stand behind it in the table.               *)
ReachesOwner ==
  served # NULL =>
    /\ served.dev # NULL
    /\ devices[served.dev].drv = "ps2" /\ devices[served.dev].irq = served.irq

=============================================================================
