------------------------------- MODULE MCMmu -------------------------------
(* Guests that turn paging on in each of its formats, for TLC.              *)
EXTENDS MmuHelper, TLC

MCPages == {<<1, 1, 1, 1>>, <<1, 1, 1, 2>>, <<1, 1, 2, 1>>, <<2, 1, 1, 1>>}
MCFrames == 2 .. 9
Absent == Entry({}, 2)
Filled0(set) ==
  [loc \in MCFrames \X Indexes |->
     IF \E s \in set : s[1] = loc THEN (CHOOSE s \in set : s[1] = loc)[2] ELSE Absent]
All == {"P", "RW", "US"}
\* The tables are frames 4 (level 1), 6 (level 2), 8, and 7 (levels 3 and 4).
LegacyMem(flags) ==
  Filled0({<<<<4, 1>>, Entry({"P", "RW"}, 2)>>, <<<<4, 2>>, Entry({"P", "US"}, 3)>>,
           <<<<6, 1>>, Entry(All, 4)>>, <<<<6, 2>>, Entry(flags, 8)>>,
           <<<<8, 1>>, Entry(All, 3)>>, <<<<8, 2>>, Entry(All, 3)>>})
\* The way to the first page has been used before.
Used(m) == [m EXCEPT ![<<4, 1>>].flags = @ \cup {"A"}, ![<<6, 1>>].flags = @ \cup {"A"}]
With3(m) == [m EXCEPT ![<<8, 1>>] = Entry({"P"}, 6)]
With4(m) == [m EXCEPT ![<<8, 1>>] = Entry({"P", "RW", "US"}, 6),
                      ![<<7, 1>>] = Entry({"P", "US"}, 8)]
MmuCpu(cr0, cr4, efer, cr3) ==
  [cr0 |-> cr0, cr3 |-> cr3, cr4 |-> cr4, efer |-> efer, a20 |-> TRUE, cr2 |-> <<>>, eflags |-> {},
   hflags |-> IF "LMA" \in efer THEN {"LMA"} ELSE {}, intercept |-> {}]
MCMmuBoot ==
  [legacy |-> [cpu |-> MmuCpu({"PE"}, {}, {}, 6), mem |-> LegacyMem(All)],
   pse    |-> [cpu |-> MmuCpu({"PE", "PG"}, {"PSE"}, {}, 6), mem |-> Used(LegacyMem(All \cup {"PS"}))],
   pae    |-> [cpu |-> MmuCpu({"PE"}, {"PAE"}, {}, 8), mem |-> With3(LegacyMem(All))],
   nx     |-> [cpu |-> MmuCpu({"PE", "PG", "WP"}, {"PAE"}, {"NXE"}, 8),
               mem |-> With3(LegacyMem(All \cup {"PS"}))],
   long   |-> [cpu |-> [MmuCpu({"PE"}, {"PAE"}, {"LME"}, 7) EXCEPT !.intercept = {"PF"}],
               mem |-> With4(LegacyMem(All))]]
P11 == <<1, 1, 1, 1>>
P12 == <<1, 1, 1, 2>>
P21 == <<1, 1, 2, 1>>
Quiet == [cr0 |-> {}, cr4 |-> {}, cr3 |-> {}, a20 |-> {}, nxe |-> {}, entries |-> <<>>, pages |-> {P11, P21}]
NoWrite == {{"PE", "PG"}, {"PE", "PG", "WP"}}
MCMmuUse ==
  [legacy |-> [Quiet EXCEPT !.cr0 = NoWrite \cup {{"PE"}}, !.pages = {P11, P12},
                 !.entries = <<4, 1>> :> {Absent, Entry({"P", "US", "A"}, 3)}],
   pse    |-> [Quiet EXCEPT !.cr4 = {{}, {"PSE"}}, !.a20 = {TRUE, FALSE},
                 !.entries = <<6, 2>> :> {Entry({"P", "US", "PS"}, 9)}],
   pae    |-> [Quiet EXCEPT !.cr0 = {{"PE"}, {"PE", "PG"}}, !.cr3 = {8, 9}, !.pages = {P11, P12},
                 !.entries = <<4, 2>> :> {Entry({"P", "NX"}, 2)}],
   nx     |-> [Quiet EXCEPT !.cr0 = NoWrite, !.nxe = BOOLEAN,
                 !.entries = <<4, 1>> :> {Entry({"P", "US", "NX", "A"}, 5)}],
   long   |-> [Quiet EXCEPT !.cr0 = {{"PE"}, {"PE", "PG"}}, !.cr4 = {{}, {"PAE"}},
                 !.pages = {P11, <<2, 1, 1, 1>>},
                 !.entries = <<7, 1>> :> {Entry(All \cup {"NX"}, 8)}]]
=============================================================================
