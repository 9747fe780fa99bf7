---- MODULE MCGuestModes ----
EXTENDS GuestModes, TLC
ASeg(kind, dpl, b, l) == [Attr(kind, dpl) EXCEPT !.b = b, !.l = l]
Code16 == Segment(Sel(1, 0), 0, ASeg("code", 0, FALSE, FALSE))
Code32 == Segment(Sel(2, 0), 0, ASeg("code", 0, TRUE, FALSE))
Code64s == Segment(Sel(3, 0), 0, ASeg("code", 0, FALSE, TRUE))
Data32 == Segment(Sel(4, 0), 0, ASeg("data", 0, TRUE, FALSE))
DataBase == Segment(Sel(5, 0), 1, ASeg("data", 0, TRUE, FALSE))
Data16 == Segment(Sel(6, 0), 0, ASeg("data", 0, FALSE, FALSE))
UserCode32 == Segment(Sel(7, 3), 0, ASeg("code", 3, TRUE, FALSE))
UserData == Segment(Sel(8, 3), 0, ASeg("data", 3, TRUE, FALSE))
Vm(i) == Segment(Sel(i, 3), 1, NoAttr)
Cpu0(cs, ss, ds, cr0, cr4, efer, eflags, cpl) ==
  LET e == [segs |-> [CS |-> cs, SS |-> ss, DS |-> ds], efer |-> efer, cr0 |-> cr0, cr4 |-> cr4,
            eip |-> 0, eflags |-> eflags, iopl |-> 0, dr7 |-> {}, cpl |-> cpl, hflags |-> {},
            hflags2 |-> {"GIF"}, smbase |-> 30, intercept |-> {}, virq |-> FALSE]
  IN [e EXCEPT !.hflags = Hflags(e) \cup (efer \cap {"SVME"})]
Real16 == ResetCpu(Cpu0(Code16, Data16, Data16, {}, {}, {}, {}, 0))
ModeProt == Cpu0(Code32, Data32, Data32, {"PE"}, {"PAE"}, {}, {}, 0)
Long64 == Cpu0(Code64s, Data32, Data32, {"PE", "PG"}, {"PAE"}, {"LME", "LMA", "SVME"}, {"IF"}, 0)
User == Cpu0(UserCode32, UserData, UserData, {"PE", "PG"}, {"OSFXSR"}, {}, {"IF"}, 3)
V86 == Cpu0(Vm(1), Vm(2), Vm(2), {"PE", "PG"}, {}, {}, {"IF", "VM"}, 3)
Host32 == Cpu0(Code32, Data32, Data32, {"PE", "PG"}, {"PAE"}, {"SVME"}, {}, 0)
MCModeBoot == [start |-> Real16, smm |-> Real16, smm32 |-> Real16, user |-> User, v86 |-> V86, host64 |-> Long64, nested64 |-> Long64, host32 |-> Host32,
  kvm |-> ModeProt, kvm64 |-> Long64]
Idle == [cr0 |-> {}, cr4 |-> {}, efer |-> {}, low |-> {}, code |-> {}, data |-> {}, means |-> {},
         kvm_runs |-> {}, vms |-> {}, target64 |-> TRUE]
Start == [Idle EXCEPT !.cr0 = {{}, {"PE"}, {"PE", "PG"}}, !.cr4 = {{}, {"OSFXSR", "PAE"}},
   !.efer = {{}, {"LME"}}, !.low = {{}, {"TS", "MP"}}, !.code = {Code16, Code32, Code64s}, !.data = {Data16, DataBase}]
Smm == [Idle EXCEPT !.cr0 = {{"PE"}, {"PE", "PG"}}, !.cr4 = {{"PAE"}}, !.efer = {{"LME"}},
   !.code = {Code32, Code64s}, !.means = {"smi", "migrate"}]
MCModeUse ==
 [handler |-> [Idle EXCEPT !.cr0 = {{"PE"}}, !.data = {DataBase}],
  start |-> [Start EXCEPT !.means = {"reset", "migrate"}],
  smm |-> Smm,
  smm32 |-> [Smm EXCEPT !.efer = {}, !.cr4 = {{"OSFXSR"}}, !.code = {Code32}, !.means = {"smi"}, !.target64 = FALSE],
  user |-> [Idle EXCEPT !.data = {UserData}, !.means = {"smi", "migrate"}],
  v86 |-> [Idle EXCEPT !.data = {Vm(2)}, !.means = {"smi", "migrate"}],
  host64 |-> [Idle EXCEPT !.cr0 = {{"PE"}, {"PE", "PG"}}, !.efer = {{"LME", "SVME"}}, !.code = {Code32}, !.means = {"migrate"}, !.vms = {1, 2}],
  nested64 |-> [Idle EXCEPT !.cr0 = {{"PE"}}, !.cr4 = {{}}, !.code = {Code32}, !.means = {"reset", "migrate"}, !.vms = {3}],
  host32 |-> [Idle EXCEPT !.cr0 = {{"PE"}, {"PE", "PG"}}, !.cr4 = {{"PAE"}, {"PAE", "OSFXSR"}}, !.low = {{"TS"}}, !.vms = {3, 4, 5}],
  kvm |-> [Idle EXCEPT !.cr0 = {{}, {"PE"}}, !.code = {Code32}, !.data = {DataBase}, !.means = {"kvm", "migrate"}, !.kvm_runs = {"user", "v86", "start"}],
  kvm64 |-> [Idle EXCEPT !.means = {"kvm"}, !.kvm_runs = {"host64", "user", "kvm64"}, !.code = {Code64s}]]
Ctl(i, m, virq, type) == [intercept |-> i, msrpm |-> {"EFER"}, masking |-> m, virq |-> virq,
   event |-> [type |-> type, vector |-> 3], exit |-> <<>>]
ModeSeg(e, c) == [save |-> VmcbSave(e), control |-> c]
MCVmcbs == <<ModeSeg(Real16, Ctl({"CR0"}, TRUE, TRUE, "NONE")), ModeSeg(ModeProt, Ctl({"MSR"}, FALSE, FALSE, "SOFT")),
  ModeSeg([Long64 EXCEPT !.efer = @ \ {"SVME"}, !.eflags = {}], Ctl({"CR0", "CR4"}, TRUE, FALSE, "EXEPT")), ModeSeg(V86, Ctl({}, TRUE, FALSE, "NMI")), ModeSeg(User, Ctl({}, FALSE, FALSE, "INTR"))>>
====
