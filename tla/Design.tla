------------------------------- MODULE Design -------------------------------
(***************************************************************************)
(* Reading a design: the files in the order a script reads them, the       *)
(* netlist that link_design flattens into the database, and what the       *)
(* timing engine's network sees of it (src/src/OpenRoad.cc, .tcl, .i;      *)
(* dbReadVerilog.cc, dbSta.cc and the library and top cell part of         *)
(* dbNetwork.cc in src/src/dbSta/src).                                     *)
(*                                                                         *)
(* A file stands for what its parser, which is not in the repository,      *)
(* makes of it: a LEF file for its masters, a liberty file for its cells,  *)
(* a Verilog file for the hierarchical netlist of its top module.          *)
(***************************************************************************)
EXTENDS Naturals, Sequences, SequencesExt

CONSTANTS
    Lef, Liberty, VerilogFile,
    Cell,
    Masters,    \* Masters[f]: cell |-> its pins, for each master of LEF file f
    LibCells,   \* LibCells[l]: the cells of liberty file l
    Verilog,    \* Verilog[v]: a hierarchical netlist, see below
    NoLef, NoLiberty, NoVerilog, NoBlock, NoCell,
    MaxSteps    \* bound: the commands of one session

(***************************************************************************)
(* A hierarchical netlist:                                                 *)
(*   insts     leaf instance |-> its cell                                  *)
(*   nets      the nets of the top module and of each child below it, in   *)
(*             the order makeDbNets comes to them                          *)
(*   top       those of the top module                                     *)
(*   constant  those tied to power or ground                               *)
(*   terms     <<net, outer>>: net is tied to the net outer through a port *)
(*             of its module; a port with no net outside has no terminal   *)
(*   pins      <<leaf instance, port>> |-> net, unless it has none         *)
(*   ports     port of the top module |-> [net, dir]                       *)
(***************************************************************************)
NetsOf(v)  == ToSet(Verilog[v].nets)
TermsOf(v) == ToSet(Verilog[v].terms)

\* A port ties a net of a child to one outside, which makeDbNets comes to before.
ASSUME DesignAssumption ==
    /\ NoLef \notin Lef /\ NoLiberty \notin Liberty /\ NoVerilog \notin VerilogFile
    /\ \A f \in Lef : DOMAIN Masters[f] \subseteq Cell
    /\ \A l \in Liberty : LibCells[l] \subseteq Cell
    /\ \A v \in VerilogFile :
          /\ Verilog[v].nets \in Seq(NetsOf(v))
          /\ TermsOf(v) \subseteq (NetsOf(v) \ Verilog[v].top) \X NetsOf(v)
          /\ \A t \in TermsOf(v), i, k \in DOMAIN Verilog[v].nets :
                <<Verilog[v].nets[k], Verilog[v].nets[i]>> = t => i < k
          /\ \A p \in DOMAIN Verilog[v].pins :
                p[1] \in DOMAIN Verilog[v].insts /\ Verilog[v].pins[p] \in NetsOf(v)
          /\ \A t \in DOMAIN Verilog[v].ports :
                Verilog[v].ports[t].net \in Verilog[v].top \cap NetsOf(v)

VARIABLES
    steps,
    source,    \* what read_verilog has read
    tech, libs, block,         \* the database: libs in the order they were read
    clibs,     \* dbNetwork: the libraries made of LEF libraries, [lef, link]
    liberty,   \* dbNetwork: the liberty libraries in the order they were read
    ext,       \* ext[<<l, c>>]: the library of the master liberty cell c of l stands for
    db_, block_, top_cell_,    \* dbNetwork
    file       \* what write_db has written

database == <<tech, libs, block>>
cells == <<clibs, liberty, ext>>
design == <<db_, block_, top_cell_>>
vars == <<steps, source, database, cells, design, file>>

-----------------------------------------------------------------------------
(***************************************************************************)
(* Verilog2db.                                                             *)
(***************************************************************************)
\* The first element of s that is in S.
First(s, S, none) ==
    LET found == {k \in DOMAIN s : s[k] \in S}
    IN  IF found = {} THEN none ELSE s[Min(found)]

\* dbDatabase::findMaster: the first library with a master of that name.
FindMaster(c) == First(libs, {f \in Lef : c \in DOMAIN Masters[f]}, NoLef)

\* The nets that n is tied to through ports of modules: those in every set of nets with n
\* that has both ends of each terminal or none.
Joined ==
    [v \in VerilogFile |->
       LET whole == {C \in SUBSET NetsOf(v) : \A t \in TermsOf(v) : t[1] \in C <=> t[2] \in C}
       IN  [n \in NetsOf(v) |-> {m \in NetsOf(v) : \A C \in whole : n \in C => m \in C}]]

HasTerminals(v, n) == \E t \in TermsOf(v) : t[1] = n

\* Mutant: a net below a port gets a net of its own.
MakesAnyNet(v, n) == n \notin Verilog[v].constant

MakesNet(v, n) ==
    /\ n \in Verilog[v].top \/ ~HasTerminals(v, n)
    /\ n \notin Verilog[v].constant

\* makeDbInsts: the instances of cells with a master.
DbInsts(v) ==
    [i \in {j \in DOMAIN Verilog[v].insts : FindMaster(Verilog[v].insts[j]) # NoLef} |->
       FindMaster(Verilog[v].insts[i])]

\* Leaf pins that are pins of a master.
DbPins(v) ==
    {p \in DOMAIN Verilog[v].pins :
       /\ p[1] \in DOMAIN DbInsts(v)
       /\ p[2] \in Masters[DbInsts(v)[p[1]]][Verilog[v].insts[p[1]]]}

StaToDb(dir) ==
    CASE dir = "input" -> "INPUT" [] dir \in {"output", "tristate"} -> "OUTPUT" [] OTHER -> "INOUT"

\* The body of makeDbNets for one net.  Connecting a pin takes it off the net it was on;
\* a port stays where it is.
MakeDbNet(v, b, n) ==
    IF ~MakesNet(v, n) THEN b ELSE
    LET pins  == {p \in DbPins(v) : Verilog[v].pins[p] \in Joined[v][n]}
        ports == {t \in DOMAIN Verilog[v].ports : Verilog[v].ports[t].net \in Joined[v][n]}
        io(t) == StaToDb(Verilog[v].ports[t].dir)
    IN  [b EXCEPT
           !.iterms = [p \in pins \cup DOMAIN @ |-> IF p \in pins THEN n ELSE @[p]],
           !.bterms = [t \in ports \cup DOMAIN @ |->
                         IF t \in DOMAIN @ THEN @[t] ELSE [net |-> n, io |-> io(t)]]]

\* makeBlock and makeDbNetlist, net after net.  The steps so far tell one block from another.
Flat(v) ==
    LET nets == Verilog[v].nets
        after[k \in 0..Len(nets)] ==
          IF k = 0 THEN [id |-> steps + 1, source |-> v, insts |-> DbInsts(v),
                         iterms |-> <<>>, bterms |-> <<>>]
          ELSE MakeDbNet(v, after[k - 1], nets[k])
    IN  after[Len(nets)]

-----------------------------------------------------------------------------
(***************************************************************************)
(* dbNetwork: cells made of masters, tied to liberty cells of that name.   *)
(***************************************************************************)
FindLibertyCell(c) == First(liberty, {l \in Liberty : c \in LibCells[l]}, NoLiberty)

\* makeLibrary for the LEF libraries fs.
MakeLibraries(fs) ==
    /\ clibs' = clibs \o [k \in DOMAIN fs |->
                   [lef |-> fs[k], link |-> [c \in DOMAIN Masters[fs[k]] |-> FindLibertyCell(c)]]]
    /\ ext' = [x \in DOMAIN ext |->
                 IF x[1] # FindLibertyCell(x[2]) THEN ext[x]
                 ELSE First(Reverse(fs), {f \in Lef : x[2] \in DOMAIN Masters[f]}, ext[x])]

\* Mutant: a later liberty library takes the cells over.
ClobberedLinks(l) ==
    [k \in DOMAIN clibs |->
       [clibs[k] EXCEPT !.link = [c \in DOMAIN @ |-> IF c \in LibCells[l] THEN l ELSE @[c]]]]

\* The cells readLibertyAfter ties to l.
Links(l) ==
    [k \in DOMAIN clibs |->
       [clibs[k] EXCEPT !.link =
          [c \in DOMAIN @ |-> IF @[c] = NoLiberty /\ c \in LibCells[l] THEN l ELSE @[c]]]]

DbToSta(io) == CASE io = "INPUT" -> "input" [] io = "OUTPUT" -> "output" [] OTHER -> "bidirect"

TopCell(b) == [t \in DOMAIN b.bterms |-> DbToSta(b.bterms[t].io)]

ReadDefAfter(b) == db_' = TRUE /\ block_' = b.id /\ top_cell_' = TopCell(b)

\* Without a chip the network gets the database and nothing of it.
ReadDbAfter ==
    IF block' = NoBlock THEN db_' = TRUE /\ UNCHANGED <<block_, top_cell_, clibs, ext>>
    ELSE ReadDefAfter(block') /\ MakeLibraries(libs')

-----------------------------------------------------------------------------
(***************************************************************************)
(* The commands.                                                           *)
(***************************************************************************)
Command == steps < MaxSteps /\ steps' = steps + 1

\* read_lef: without a flag a library, and the technology too if there is none.  A second
\* technology, a library without one, and a second library of that name are refused; the
\* observers are told of a library only if one was made.
ReadLef(f, flags) ==
    LET make_lib  == flags = {} \/ "library" \in flags
        make_tech == "tech" \in flags \/ (flags = {} /\ ~tech)
        fits      == (make_tech <=> ~tech) /\ f \notin ToSet(libs)
        library   == make_lib /\ fits
    IN  /\ Command
        /\ tech' = (tech \/ make_tech)
        /\ IF library THEN libs' = Append(libs, f) /\ MakeLibraries(<<f>>)
           ELSE UNCHANGED <<libs, clibs, ext>>
        /\ UNCHANGED <<source, block, liberty, design, file>>

\* read_liberty.  Bound: each file is read once.
ReadLiberty(l) ==
    /\ Command /\ l \notin ToSet(liberty)
    /\ liberty' = Append(liberty, l)
    /\ clibs' = Links(l)
    /\ ext' = [x \in DOMAIN ext |->
                 LET tied == {b \in ToSet(Links(l)) :
                                /\ x[1] = l /\ x[2] \in DOMAIN b.link /\ b.link[x[2]] = l}
                 IN  First(Reverse(Links(l)), tied, [lef |-> ext[x]]).lef]
    /\ UNCHANGED <<source, database, design, file>>

ReadVerilog(v) == Command /\ source' = v /\ UNCHANGED <<database, cells, design, file>>

\* Mutant: the observers are told only of the first block.
LinkDesignQuietly(found) ==
    /\ Command /\ source # NoVerilog /\ tech
    /\ IF found THEN block' = Flat(source) /\ source' = NoVerilog
       ELSE UNCHANGED <<block, source>>
    /\ UNCHANGED <<tech, libs, liberty, file>>
    /\ IF block = NoBlock THEN ReadDbAfter ELSE UNCHANGED <<clibs, ext, design>>

\* link_design, of a module that is there or not.  An old block is destroyed, the Verilog
\* is done with, and the observers are told in both cases.
LinkDesign(found) ==
    /\ Command /\ source # NoVerilog /\ tech
    /\ IF found THEN block' = Flat(source) /\ source' = NoVerilog
       ELSE UNCHANGED <<block, source>>
    /\ UNCHANGED <<tech, libs, liberty, file>>
    /\ ReadDbAfter

\* read_def, of the design as link_design would make it.  No second chip is made.
ReadDef(v) ==
    /\ Command /\ tech /\ block = NoBlock
    /\ block' = [Flat(v) EXCEPT !.source = NoVerilog]
    /\ ReadDefAfter(block')
    /\ UNCHANGED <<source, tech, libs, cells, file>>

WriteDb == Command /\ file' = database /\ UNCHANGED <<source, database, cells, design>>

\* read_db.  Bound: into an empty database.
ReadDb ==
    /\ Command /\ ~tech /\ libs = <<>> /\ block = NoBlock
    /\ tech' = file[1] /\ libs' = file[2]
    /\ block' = IF file[3] = NoBlock THEN NoBlock ELSE [file[3] EXCEPT !.id = steps']
    /\ UNCHANGED <<source, liberty, file>>
    /\ ReadDbAfter

\* ord::clear.  dbNetwork::clear leaves block_ and top_cell_ as they are.
Clear ==
    /\ Command
    /\ tech' = FALSE /\ libs' = <<>> /\ block' = NoBlock
    /\ clibs' = <<>> /\ liberty' = <<>> /\ ext' = [x \in DOMAIN ext |-> NoLef]
    /\ db_' = FALSE
    /\ UNCHANGED <<source, block_, top_cell_, file>>

Init ==
    /\ steps = 0 /\ source = NoVerilog
    /\ tech = FALSE /\ libs = <<>> /\ block = NoBlock
    /\ clibs = <<>> /\ liberty = <<>> /\ ext = [x \in Liberty \X Cell |-> NoLef]
    /\ db_ = TRUE /\ block_ = 0 /\ top_cell_ = NoCell
    /\ file = <<FALSE, <<>>, NoBlock>>

Next ==
    \/ \E f \in Lef, flags \in SUBSET {"tech", "library"} : ReadLef(f, flags)
    \/ \E l \in Liberty : ReadLiberty(l)
    \/ \E v \in VerilogFile : ReadVerilog(v) \/ ReadDef(v)
    \/ \E found \in BOOLEAN : LinkDesign(found)
    \/ WriteDb \/ ReadDb \/ Clear

Spec == Init /\ [][Next]_vars

-----------------------------------------------------------------------------
(***************************************************************************)
(* Properties.                                                             *)
(***************************************************************************)

(***************************************************************************)
(* Flattening keeps the connections: pins of the hierarchical netlist that *)
(* are in the database are on one net there just if modules and their      *)
(* ports tie them together, a pin is left off only if its net is constant, *)
(* and a port is on the net of its pins.  Nets that a child ties together, *)
(* of the top module or left open in another child, break the last: they   *)
(* are made one after the other, the pins move to the last and the ports   *)
(* stay on the first.                                                      *)
(***************************************************************************)
ConnectsAs(s, insts, iterms, bterms) ==
    LET v == Verilog[s]
        placed  == {p \in DOMAIN v.pins :
                      p[1] \in DOMAIN insts /\ p[2] \in Masters[insts[p[1]]][v.insts[p[1]]]}
        outer   == {n \in NetsOf(s) : n \in v.top \/ ~HasTerminals(s, n)}
        meeting == {n \in v.top : \E m \in outer \ {n} : m \in Joined[s][n]}
    IN  /\ DOMAIN iterms \subseteq placed
        /\ \A p \in placed :
              p \in DOMAIN iterms \/ \E n \in v.constant : v.pins[p] \in Joined[s][n]
        /\ \A p, q \in DOMAIN iterms :
              (iterms[p] = iterms[q]) <=> v.pins[q] \in Joined[s][v.pins[p]]
        /\ \A p \in DOMAIN iterms, t \in DOMAIN bterms :
              v.ports[t].net \notin meeting =>
                 ((iterms[p] = bterms[t].net) <=> v.ports[t].net \in Joined[s][v.pins[p]])

Hierarchical(b) == ConnectsAs(b.source, b.insts, b.iterms, b.bterms)

FlatIsHierarchical == block # NoBlock /\ block.source # NoVerilog => Hierarchical(block)

(***************************************************************************)
(* In whatever order LEF files, liberty files and designs are read, each   *)
(* cell made of a LEF master is tied to the first liberty cell of its name *)
(* (dbNetwork.cc:937), and that liberty cell, and no other, to a master of *)
(* that name.                                                              *)
(***************************************************************************)
FirstLibertyIsLinked ==
    /\ \A k \in DOMAIN clibs : \A c \in DOMAIN clibs[k].link :
          clibs[k].link[c] = FindLibertyCell(c)
    /\ \A x \in DOMAIN ext :
          (ext[x] # NoLef) <=>
             (/\ x[1] = FindLibertyCell(x[2])
              /\ \E k \in DOMAIN clibs : x[2] \in DOMAIN Masters[clibs[k].lef])

\* The network's block and top cell are those of the database.
Sees == block # NoBlock /\ db_ /\ block_ = block.id /\ top_cell_ = TopCell(block)

(***************************************************************************)
(* The network follows the database: a command that makes a block shows it *)
(* to the network, and nothing but ord::clear makes the network lose sight *)
(* of it, a link_design that fails included.                               *)
(***************************************************************************)
NetworkFollowsBlock == [][block' # NoBlock /\ (Sees \/ block' # block) => Sees']_vars

=============================================================================
