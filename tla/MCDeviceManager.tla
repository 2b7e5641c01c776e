-------------------------- MODULE MCDeviceManager --------------------------
(* DeviceManager on machines with few devices: storage controllers of both *)
(* kinds and a network card, on interrupt lines that PS/2 and the serial   *)
(* port use too, alone or as functions of one device.                      *)
EXTENDS DeviceManager

Nvme(irq) == [code |-> 1, nvme |-> TRUE, irq |-> irq]
Ahci == [code |-> 1, nvme |-> FALSE, irq |-> 4]
Nic == [code |-> 2, nvme |-> FALSE, irq |-> 12]

Slot(fn, multi) == [fn |-> fn, multifunction |-> multi]
MCSlots ==
  {Slot(<<Nvme(1), ABSENT, ABSENT>>, FALSE), Slot(<<Ahci, ABSENT, Nvme(12)>>, TRUE), Slot(<<Ahci, Nic, ABSENT>>, FALSE),
   Slot(<<ABSENT, Nvme(4), ABSENT>>, TRUE)}

MCMachines ==
  [serial : BOOLEAN, madt : {TRUE}, selftest : {TRUE}, port1 : BOOLEAN, dual_channel : {TRUE},
   port2 : BOOLEAN, framebuffers : {0, 2}, pci : {<<s, t>> : s, t \in MCSlots}]
  \cup [serial : {TRUE}, madt : BOOLEAN, selftest : BOOLEAN, port1 : {TRUE},
        dual_channel : {FALSE}, port2 : {TRUE}, framebuffers : {1}, pci : {<<s>> : s \in MCSlots}]
=============================================================================
