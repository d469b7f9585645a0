--------------------------- MODULE ImportsProofs ----------------------------
(***************************************************************************)
(* Proofs about Imports, for every number of pages, paths and files, every *)
(* content and every limit.                                                *)
(***************************************************************************)
EXTENDS Imports, WellFoundedInduction, TLAPS

(* The places of a page: an import is underway; a block is being read.     *)
Importing == {"lookup", "stat", "read", "store", "validate"}
InBlock == Importing \cup {"block"}

Parts == [path : Paths, what : Contents \cup Answers]

Contexts == [count : Nat, depth : Nat, visited : SUBSET Paths]

PageRecords ==
    [pc : {"text", "block", "lookup", "stat", "read", "store", "validate", "tag", "done"},
     left : Nat, importCounter : Nat, ctx : Contexts, parts : Seq(Parts),
     path : Paths \cup {Absent}, file : Files \cup {Absent},
     content : Contents \cup {Absent}]

-----------------------------------------------------------------------------
(* What holds of a page, wherever it is: the path, the file and the        *)
(* content that the next step needs are there,                             *)
Supplied(pg) ==
    /\ pg.pc \in Importing \cup {"tag"} => pg.path \in Paths
    /\ pg.pc \in {"read", "tag"} => pg.file \in Files
    /\ pg.pc \in {"store", "validate"} => pg.content \in Contents

(* the depth is the number of imports underway,                            *)
Shallow(pg) == pg.ctx.depth = IF pg.pc \in Importing THEN 1 ELSE 0

(* whatever a block has named is remote or visited, or named beyond the    *)
(* limit, and an import that is underway is of a path not named before.    *)
Named(pg) ==
    /\ pg.pc \in InBlock => \A i \in 1..Len(pg.parts) :
           pg.parts[i].path \in Remote \cup pg.ctx.visited \/ pg.ctx.count > MaxImports
    /\ pg.pc \in Importing =>
           /\ pg.path \in pg.ctx.visited
           /\ \A i \in 1..Len(pg.parts) : pg.parts[i].path # pg.path
    /\ pg.pc = "tag" => pg.parts = <<>>

(* What has been emitted: the three properties, of one page.               *)
Acceptable(pg) ==
    \A i \in 1..Len(pg.parts) : pg.parts[i].what \notin Dangerous \cup {"deep"}
Once(pg) ==
    \A i, j \in 1..Len(pg.parts) :
        i < j /\ pg.parts[i].path = pg.parts[j].path
        => pg.parts[j].what \in {"already", "remote", "limit"}

Good(pg) == Supplied(pg) /\ Shallow(pg) /\ Named(pg) /\ Acceptable(pg) /\ Once(pg)

IInv == ImportsTypeOK /\ \A g \in Pages : Good(page[g])

-----------------------------------------------------------------------------
(* Every set of natural numbers that is not empty has a least element.     *)
LEMMA Least ==
    ASSUME NEW S, S \subseteq Nat, S # {}
    PROVE  \E m \in S : \A k \in S : m <= k
  <1>1. PICK m \in S : \A k \in S : ~ (<<k, m>> \in OpToRel(<, Nat))
    BY NatLessThanWellFounded, WFMin, Zenon
  <1>2. \A k \in S : ~(k < m)
    BY <1>1 DEF OpToRel
  <1> QED
    BY <1>2

(* FirstOnDisk returns one of the candidates, or Absent.                   *)
LEMMA FirstOnDiskType ==
    ASSUME NEW files \in Seq(Files)
    PROVE  FirstOnDisk(files) \in Files \cup {Absent}
  <1> DEFINE I == {i \in 1..Len(files) : disk[files[i]] # Absent}
  <1>1. I \subseteq Nat
    OBVIOUS
  <1>2. I # {} => Min(I) \in I
    BY <1>1, Least DEF Min
  <1>3. FirstOnDisk(files) = LET i == IF I # {} THEN Min(I) ELSE 0
                             IN  IF i = 0 THEN Absent ELSE files[i]
    BY DEF FirstOnDisk, SelectInSeq
  <1> HIDE DEF I
  <1>4. CASE I = {}
    BY <1>3, <1>4
  <1>5. CASE I # {}
    BY <1>2, <1>3, <1>5 DEF I
  <1> QED
    BY <1>4, <1>5

LEMMA TypeFacts ==
    ASSUME ImportsTypeOK
    PROVE  /\ page \in [Pages -> PageRecords]
           /\ disk \in [Files -> Contents \cup {Absent}]
           /\ importCache \in [Paths -> Contents \cup {Absent}]
           /\ edits \in 0..Edits
  BY DEF ImportsTypeOK, PageRecords, Contexts, Parts

(* A page moves on: what remains to be shown of the step.                  *)
LEMMA PageMove ==
    ASSUME IInv, NEW g \in Pages, NEW next \in PageRecords, Good(next), Turns(g, next),
           UNCHANGED <<disk, edits>>,
           importCache' \in [Paths -> Contents \cup {Absent}]
    PROVE  IInv'
  <1>1. page' \in [Pages -> PageRecords] /\ \A h \in Pages : Good(page'[h])
    BY TypeFacts DEF IInv, Turns
  <1> QED
    BY <1>1 DEF IInv, ImportsTypeOK, PageRecords, Contexts, Parts

(* What Emit and Line do to a page.                                        *)
LEMMA EmitFacts ==
    ASSUME NEW pg \in PageRecords, NEW p \in Paths, NEW what \in Contents \cup Answers
    PROVE  LET e == Emit(pg, p, what) IN
           /\ e \in PageRecords
           /\ e.parts = Append(pg.parts, [path |-> p, what |-> what])
           /\ e.pc = pg.pc /\ e.ctx = pg.ctx /\ e.path = pg.path /\ e.file = pg.file
           /\ e.content = pg.content
  <1>1. [path |-> p, what |-> what] \in Parts
    BY DEF Parts
  <1>2. Append(pg.parts, [path |-> p, what |-> what]) \in Seq(Parts)
    BY <1>1 DEF PageRecords
  <1> QED
    BY <1>2 DEF Emit, PageRecords

LEMMA LineFacts ==
    ASSUME NEW pg \in PageRecords, NEW p \in Paths, NEW what \in Contents \cup Answers
    PROVE  LET e == Line(pg, p, what) IN
           /\ e \in PageRecords
           /\ e.parts = Append(pg.parts, [path |-> p, what |-> what])
           /\ e.pc = "block" /\ e.ctx = pg.ctx
  <1> DEFINE e == Emit(pg, p, what)
  <1>1. /\ e \in PageRecords
        /\ e.parts = Append(pg.parts, [path |-> p, what |-> what]) /\ e.ctx = pg.ctx
    BY EmitFacts
  <1>2. Line(pg, p, what) = [e EXCEPT !.pc = "block", !.path = Absent, !.file = Absent,
                                      !.content = Absent]
    BY DEF Line
  <1> HIDE DEF e
  <1> QED
    BY <1>1, <1>2 DEF PageRecords

(* One more part: every part of the longer sequence is an old one, at its  *)
(* place, or the new one, at the end.                                      *)
LEMMA AppendFacts ==
    ASSUME NEW S, NEW s \in Seq(S), NEW x \in S
    PROVE  /\ Len(Append(s, x)) = Len(s) + 1 /\ Len(s) \in Nat
           /\ \A i \in 1..Len(s) : Append(s, x)[i] = s[i]
           /\ Append(s, x)[Len(s) + 1] = x
           /\ \A i \in 1..Len(Append(s, x)) : i \in 1..Len(s) \/ i = Len(s) + 1
  OBVIOUS

(* A page emits a part that is acceptable and names a path for the first   *)
(* time, or with a remark.                                                 *)
LEMMA EmitGood ==
    ASSUME NEW pg \in PageRecords, NEW new \in PageRecords, NEW p \in Paths,
           NEW what \in Contents \cup Answers,
           Acceptable(pg), Once(pg),
           new.parts = Append(pg.parts, [path |-> p, what |-> what]),
           what \notin Dangerous \cup {"deep"},
           \/ what \in {"already", "remote", "limit"}
           \/ \A i \in 1..Len(pg.parts) : pg.parts[i].path # p
    PROVE  Acceptable(new) /\ Once(new)
  <1> DEFINE x == [path |-> p, what |-> what]
  <1>1. pg.parts \in Seq(Parts) /\ x \in Parts /\ x.path = p /\ x.what = what
    BY DEF PageRecords, Parts
  <1>2. /\ Len(new.parts) = Len(pg.parts) + 1 /\ Len(pg.parts) \in Nat
        /\ \A i \in 1..Len(pg.parts) : new.parts[i] = pg.parts[i]
        /\ new.parts[Len(pg.parts) + 1] = x
        /\ \A i \in 1..Len(new.parts) : i \in 1..Len(pg.parts) \/ i = Len(pg.parts) + 1
    <2>1. new.parts = Append(pg.parts, x)
      OBVIOUS
    <2> HIDE DEF x
    <2>2. /\ Len(Append(pg.parts, x)) = Len(pg.parts) + 1 /\ Len(pg.parts) \in Nat
          /\ \A i \in 1..Len(pg.parts) : Append(pg.parts, x)[i] = pg.parts[i]
          /\ Append(pg.parts, x)[Len(pg.parts) + 1] = x
          /\ \A i \in 1..Len(Append(pg.parts, x)) : i \in 1..Len(pg.parts) \/ i = Len(pg.parts) + 1
      BY <1>1, AppendFacts, Zenon
    <2> QED
      BY <2>1, <2>2, Zenon
  <1> HIDE DEF x
  <1>3. Acceptable(new)
    BY <1>1, <1>2 DEF Acceptable
  <1>4. Once(new)
    <2> SUFFICES ASSUME NEW i \in 1..Len(new.parts), NEW j \in 1..Len(new.parts), i < j,
                        new.parts[i].path = new.parts[j].path
                 PROVE  new.parts[j].what \in {"already", "remote", "limit"}
      BY DEF Once
    <2>1. i \in 1..Len(pg.parts)
      <3>1. /\ Len(new.parts) = Len(pg.parts) + 1 /\ Len(pg.parts) \in Nat
            /\ i \in 1..Len(new.parts) /\ j \in 1..Len(new.parts) /\ i < j
        BY <1>2
      <3> QED
        BY ONLY <3>1
    <2>2. CASE j \in 1..Len(pg.parts)
      BY <1>2, <2>1, <2>2 DEF Once
    <2>3. CASE j = Len(pg.parts) + 1
      BY <1>1, <1>2, <2>1, <2>3
    <2> QED
      BY <1>2, <2>2, <2>3
  <1> QED
    BY <1>3, <1>4

-----------------------------------------------------------------------------
LEMMA InitIInv == InitImports => IInv
  <1> SUFFICES ASSUME InitImports PROVE IInv
    OBVIOUS
  <1>1. \A g \in Pages : NewPage(g) \in PageRecords
    BY ImportsAssumption DEF NewPage, NewImportContext, PageRecords, Contexts, Parts
  <1>2. \A g \in Pages : Good(NewPage(g))
    BY DEF NewPage, NewImportContext, Good, Supplied, Shallow, Named, Acceptable, Once,
           Importing, InBlock
  <1>3. page \in [Pages -> PageRecords] /\ \A g \in Pages : Good(page[g])
    BY <1>1, <1>2 DEF InitImports
  <1>4. /\ disk \in [Files -> Contents \cup {Absent}] /\ edits \in 0..Edits
        /\ importCache \in [Paths -> Contents \cup {Absent}]
    BY ImportsAssumption DEF InitImports
  <1> QED
    BY <1>3, <1>4 DEF IInv, ImportsTypeOK, PageRecords, Contexts, Parts

(* The limit on the imports and the remarks are what the code compares.    *)
LEMMA ConstFacts ==
    /\ MaxImports \in Nat /\ MaxDepth \in Nat /\ MaxDepth >= 1
    /\ Answers \cap Dangerous = {} /\ "deep" \notin Contents
    /\ Answers \subseteq Contents \cup Answers
  <1>1. MaxImports \in Nat \ {0} /\ MaxDepth \in Nat \ {0}
    BY ImportsAssumption
  <1>2. Answers \cap Contents = {} /\ Dangerous \subseteq Contents
    BY ImportsAssumption
  <1>3. "deep" \in Answers
    BY DEF Answers
  <1>4. MaxDepth >= 1
    BY <1>1
  <1>5. Answers \cap Dangerous = {} /\ "deep" \notin Contents
    BY <1>2, <1>3
  <1> QED
    BY <1>1, <1>4, <1>5

(* The fields of a page and of its context.                                *)
LEMMA Fields ==
    ASSUME NEW pg \in PageRecords
    PROVE  /\ pg.left \in Nat /\ pg.importCounter \in Nat /\ pg.ctx \in Contexts
           /\ pg.ctx.count \in Nat /\ pg.ctx.depth \in Nat /\ pg.ctx.visited \subseteq Paths
           /\ pg.parts \in Seq(Parts) /\ Len(pg.parts) \in Nat
  BY DEF PageRecords, Contexts

(* What a context looks like after a line is counted, a path is marked and *)
(* an import has ended.                                                    *)
LEMMA ContextFacts ==
    ASSUME NEW ctx \in Contexts, NEW p \in Paths
    PROVE  /\ [ctx EXCEPT !.count = @ + 1] \in Contexts
           /\ [ctx EXCEPT !.count = @ + 1].count = ctx.count + 1
           /\ [ctx EXCEPT !.count = @ + 1].depth = ctx.depth
           /\ [ctx EXCEPT !.count = @ + 1].visited = ctx.visited
           /\ Mark(ctx, p) \in Contexts
           /\ Mark(ctx, p).count = ctx.count
           /\ Mark(ctx, p).depth = ctx.depth + 1
           /\ Mark(ctx, p).visited = ctx.visited \cup {p}
           /\ [ctx EXCEPT !.depth = @ - 1].count = ctx.count
           /\ [ctx EXCEPT !.depth = @ - 1].depth = ctx.depth - 1
           /\ [ctx EXCEPT !.depth = @ - 1].visited = ctx.visited
           /\ ctx.depth = 1 => [ctx EXCEPT !.depth = @ - 1] \in Contexts
  <1>1. ctx.count \in Nat /\ ctx.depth \in Nat /\ ctx.visited \subseteq Paths
    BY DEF Contexts
  <1>2. /\ [ctx EXCEPT !.count = @ + 1] \in Contexts
        /\ [ctx EXCEPT !.count = @ + 1].count = ctx.count + 1
        /\ [ctx EXCEPT !.count = @ + 1].depth = ctx.depth
        /\ [ctx EXCEPT !.count = @ + 1].visited = ctx.visited
    BY DEF Contexts
  <1>3. /\ Mark(ctx, p) \in Contexts
        /\ Mark(ctx, p).count = ctx.count
        /\ Mark(ctx, p).depth = ctx.depth + 1
        /\ Mark(ctx, p).visited = ctx.visited \cup {p}
    <2>1. ctx.visited \cup {p} \in SUBSET Paths /\ ctx.depth + 1 \in Nat
      BY <1>1
    <2> QED
      BY <2>1 DEF Contexts, Mark
  <1>4. /\ [ctx EXCEPT !.depth = @ - 1].count = ctx.count
        /\ [ctx EXCEPT !.depth = @ - 1].depth = ctx.depth - 1
        /\ [ctx EXCEPT !.depth = @ - 1].visited = ctx.visited
        /\ ctx.depth = 1 => [ctx EXCEPT !.depth = @ - 1] \in Contexts
    BY DEF Contexts
  <1> QED
    BY <1>2, <1>3, <1>4

LEMMA PageFacts ==
    ASSUME IInv, NEW g \in Pages
    PROVE  /\ page[g] \in PageRecords /\ Good(page[g])
           /\ importCache \in [Paths -> Contents \cup {Absent}]
           /\ disk \in [Files -> Contents \cup {Absent}]
  BY TypeFacts DEF IInv

(* The steps that neither emit anything nor touch the depth of a block.    *)
LEMMA BlockStep ==
    ASSUME IInv, NEW g \in Pages, ScriptBlock(g) \/ EndBlock(g) \/ EndPage(g)
    PROVE  IInv'
  <1>0. /\ page[g] \in PageRecords /\ Good(page[g])
        /\ importCache \in [Paths -> Contents \cup {Absent}]
    BY PageFacts
  <1>1. CASE ScriptBlock(g)
    <2> DEFINE pg == [page[g] EXCEPT !.left = @ - 1, !.importCounter = @ + 1]
               new == [pg EXCEPT !.pc = "block", !.ctx = NewImportContext, !.parts = <<>>]
    <2>1. page[g].pc = "text" /\ page[g].left > 0 /\ UNCHANGED <<disk, edits, importCache>>
      BY <1>1 DEF ScriptBlock, Reads, In
    <2>0. page[g].left - 1 \in Nat /\ page[g].importCounter + 1 \in Nat
      BY <1>0, <2>1 DEF PageRecords
    <2>2. pg \in PageRecords
      BY <1>0, <2>0 DEF PageRecords
    <2>3. new \in PageRecords /\ Good(new)
      <3>1. NewImportContext \in Contexts /\ NewImportContext.depth = 0
        BY DEF NewImportContext, Contexts
      <3>2. /\ new \in PageRecords /\ new.pc = "block" /\ new.ctx = NewImportContext
            /\ new.parts = <<>>
        <4>1. <<>> \in Seq(Parts)
          OBVIOUS
        <4> HIDE DEF pg
        <4> QED
          BY <2>2, <3>1, <4>1 DEF PageRecords
      <3> HIDE DEF new
      <3>3. Len(new.parts) = 0
        BY <3>2
      <3> QED
        BY <3>1, <3>2, <3>3 DEF Good, Supplied, Shallow, Named, Acceptable, Once, Importing
    <2>4. Good(pg)
      BY <1>0, <2>1 DEF PageRecords, Good, Supplied, Shallow, Named, Acceptable, Once,
                        Importing, InBlock
    <2>5. Turns(g, new) \/ Turns(g, pg)
      BY <1>1 DEF ScriptBlock
    <2> HIDE DEF pg, new
    <2> QED
      BY <1>0, <2>1, <2>2, <2>3, <2>4, <2>5, PageMove
  <1>2. ASSUME NEW place \in {"text", "done"}, page[g].pc \in {"block", "text"},
               Turns(g, [page[g] EXCEPT !.pc = place]), UNCHANGED <<disk, edits, importCache>>
        PROVE  IInv'
    <2> DEFINE new == [page[g] EXCEPT !.pc = place]
    <2>1. new \in PageRecords
      BY <1>0, <1>2 DEF PageRecords
    <2>2. /\ new.pc = place /\ new.ctx = page[g].ctx /\ new.parts = page[g].parts
      BY <1>0, <1>2 DEF PageRecords
    <2>3. Good(new)
      BY <1>0, <1>2, <2>2 DEF Good, Supplied, Shallow, Named, Acceptable, Once,
                                          Importing, InBlock
    <2> HIDE DEF new
    <2> QED
      BY <1>0, <1>2, <2>1, <2>3, PageMove DEF new
  <1> QED
    BY <1>1, <1>2 DEF EndBlock, EndPage, In

(* An import line: a remark, or the path is marked and looked up.          *)
LEMMA LineStep ==
    ASSUME IInv, NEW g \in Pages, NEW p \in Paths, ImportLine(g, p)
    PROVE  IInv'
  <1> DEFINE pg == [page[g] EXCEPT !.left = @ - 1, !.ctx.count = @ + 1]
             new == [pg EXCEPT !.pc = "lookup", !.path = p, !.ctx = Mark(@, p)]
             remark(what) == Line(pg, p, what)
  <1>0. /\ page[g] \in PageRecords /\ Good(page[g])
        /\ importCache \in [Paths -> Contents \cup {Absent}]
    BY PageFacts
  <1>1. page[g].pc = "block" /\ page[g].left > 0 /\ UNCHANGED <<disk, edits, importCache>>
    BY DEF ImportLine, Reads, In
  <1>2. /\ pg \in PageRecords /\ pg.pc = "block" /\ pg.parts = page[g].parts
        /\ pg.ctx.count = page[g].ctx.count + 1 /\ pg.ctx.depth = page[g].ctx.depth
        /\ pg.ctx.visited = page[g].ctx.visited /\ pg.ctx \in Contexts
        /\ page[g].ctx.count \in Nat
    <2> DEFINE ctx == [page[g].ctx EXCEPT !.count = @ + 1]
    <2>1. page[g].left - 1 \in Nat /\ page[g].ctx \in Contexts /\ page[g].ctx.count \in Nat
      BY <1>0, <1>1, Fields
    <2>2. /\ ctx \in Contexts /\ ctx.count = page[g].ctx.count + 1
          /\ ctx.depth = page[g].ctx.depth /\ ctx.visited = page[g].ctx.visited
      BY <2>1, ContextFacts
    <2>3. pg = [page[g] EXCEPT !.left = page[g].left - 1, !.ctx = ctx]
      BY <1>0 DEF PageRecords, Contexts
    <2> HIDE DEF ctx, pg
    <2>4. pg \in PageRecords /\ pg.pc = "block" /\ pg.parts = page[g].parts /\ pg.ctx = ctx
      BY <1>0, <1>1, <2>1, <2>2, <2>3 DEF PageRecords
    <2> QED
      BY <2>1, <2>2, <2>4
  <1>3. pg.ctx.depth = 0 /\ Acceptable(pg) /\ Once(pg)
    BY <1>0, <1>1, <1>2 DEF Good, Shallow, Acceptable, Once, Importing
  <1>4. \A i \in 1..Len(pg.parts) :
            pg.parts[i].path \in Remote \cup pg.ctx.visited \/ page[g].ctx.count > MaxImports
    BY <1>0, <1>1, <1>2 DEF Good, Named, InBlock
  <1>5. Turns(g, IF pg.ctx.count > MaxImports THEN remark("limit")
                 ELSE IF p \in Remote THEN remark("remote")
                 ELSE IF pg.ctx.depth >= MaxDepth THEN remark("deep")
                 ELSE IF p \in pg.ctx.visited THEN remark("already")
                 ELSE new)
    BY DEF ImportLine
  <1> HIDE DEF pg
  <1>6. ASSUME NEW what \in {"limit", "remote", "already"},
               p \in Remote \cup pg.ctx.visited \/ pg.ctx.count > MaxImports
        PROVE  remark(what) \in PageRecords /\ Good(remark(what))
    <2> DEFINE e == remark(what)
    <2>1. what \in Contents \cup Answers /\ what \notin Dangerous \cup {"deep"}
      BY ConstFacts DEF Answers
    <2>2. /\ e \in PageRecords
          /\ e.parts = Append(pg.parts, [path |-> p, what |-> what])
          /\ e.pc = "block" /\ e.ctx = pg.ctx
      BY <1>2, <2>1, LineFacts
    <2> HIDE DEF e
    <2>3. Acceptable(e) /\ Once(e)
      BY <1>2, <1>3, <2>1, <2>2, EmitGood
    <2>4. \A i \in 1..Len(e.parts) :
              e.parts[i].path \in Remote \cup e.ctx.visited \/ e.ctx.count > MaxImports
      <3> DEFINE x == [path |-> p, what |-> what]
      <3>1. pg.parts \in Seq(Parts) /\ x \in Parts /\ x.path = p /\ e.parts = Append(pg.parts, x)
        BY <1>2, <2>1, <2>2 DEF PageRecords, Parts
      <3> HIDE DEF x
      <3>2. /\ \A i \in 1..Len(pg.parts) : e.parts[i] = pg.parts[i]
            /\ e.parts[Len(pg.parts) + 1] = x
            /\ \A i \in 1..Len(e.parts) : i \in 1..Len(pg.parts) \/ i = Len(pg.parts) + 1
        BY <3>1, AppendFacts
      <3>3. page[g].ctx.count > MaxImports => pg.ctx.count > MaxImports
        BY <1>2, ConstFacts
      <3> QED
        BY <1>4, <1>6, <2>2, <3>1, <3>2, <3>3
    <2>5. Supplied(e) /\ Shallow(e) /\ Named(e)
      BY <1>3, <2>2, <2>4 DEF Supplied, Shallow, Named, Importing
    <2> QED
      BY <2>2, <2>3, <2>5 DEF Good, e
  <1>7. ASSUME ~(pg.ctx.count > MaxImports), p \notin Remote, p \notin pg.ctx.visited
        PROVE  new \in PageRecords /\ Good(new)
    <2>1. /\ new \in PageRecords /\ new.pc = "lookup" /\ new.path = p /\ new.parts = pg.parts
          /\ new.ctx.visited = pg.ctx.visited \cup {p} /\ new.ctx.depth = pg.ctx.depth + 1
          /\ new.ctx.count = pg.ctx.count
      <3> DEFINE ctx == Mark(pg.ctx, p)
      <3>1. /\ ctx \in Contexts /\ ctx.count = pg.ctx.count /\ ctx.depth = pg.ctx.depth + 1
            /\ ctx.visited = pg.ctx.visited \cup {p}
        BY <1>2, ContextFacts
      <3>2. new = [pg EXCEPT !.pc = "lookup", !.path = p, !.ctx = ctx]
        OBVIOUS
      <3> HIDE DEF ctx, new
      <3>3. /\ new \in PageRecords /\ new.pc = "lookup" /\ new.path = p /\ new.parts = pg.parts
            /\ new.ctx = ctx
        BY <1>2, <3>1, <3>2 DEF PageRecords
      <3> QED
        BY <3>1, <3>3
    <2>2. ~(page[g].ctx.count > MaxImports)
      BY <1>2, <1>7, ConstFacts
    <2>3. \A i \in 1..Len(pg.parts) : pg.parts[i].path \in Remote \cup pg.ctx.visited
      BY <1>4, <2>2
    <2> HIDE DEF new
    <2> QED
      BY <1>3, <1>7, <2>1, <2>3 DEF Good, Supplied, Shallow, Named, Acceptable, Once,
                                    Importing, InBlock
  <1>8. ~(pg.ctx.depth >= MaxDepth)
    BY <1>3, ConstFacts
  <1> HIDE DEF new, remark
  <1>9. PICK next \in PageRecords : Good(next) /\ Turns(g, next)
    <2>1. CASE pg.ctx.count > MaxImports
      <3>1. Turns(g, remark("limit"))
        BY <1>5, <2>1
      <3> QED
        BY <1>6, <2>1, <3>1
    <2>2. CASE ~(pg.ctx.count > MaxImports) /\ p \in Remote
      <3>1. Turns(g, remark("remote"))
        BY <1>5, <2>2
      <3> QED
        BY <1>6, <2>2, <3>1
    <2>3. CASE ~(pg.ctx.count > MaxImports) /\ p \notin Remote /\ p \in pg.ctx.visited
      <3>1. Turns(g, remark("already"))
        BY <1>5, <1>8, <2>3
      <3> QED
        BY <1>6, <2>3, <3>1
    <2>4. CASE ~(pg.ctx.count > MaxImports) /\ p \notin Remote /\ p \notin pg.ctx.visited
      <3>1. Turns(g, new)
        BY <1>5, <1>8, <2>4
      <3> QED
        BY <1>7, <2>4, <3>1
    <2> QED
      BY <2>1, <2>2, <2>3, <2>4
  <1> QED
    BY <1>0, <1>1, <1>9, PageMove

-----------------------------------------------------------------------------
(* The page g ends the import it is at, with a content or an error.        *)
LEMMA EndGood ==
    ASSUME IInv, NEW g \in Pages, page[g].pc \in Importing,
           NEW what \in Contents \cup Answers, what \notin Dangerous \cup {"deep"}
    PROVE  LET e == [Line(page[g], page[g].path, what) EXCEPT !.ctx.depth = @ - 1] IN
           e \in PageRecords /\ Good(e)
  <1> DEFINE l == Line(page[g], page[g].path, what)
             e == [l EXCEPT !.ctx.depth = @ - 1]
             ctx == [l.ctx EXCEPT !.depth = @ - 1]
             p == page[g].path
             x == [path |-> p, what |-> what]
  <1>0. /\ page[g] \in PageRecords /\ Good(page[g]) /\ p \in Paths
    BY PageFacts DEF Good, Supplied
  <1>1. /\ l \in PageRecords /\ l.parts = Append(page[g].parts, x)
        /\ l.pc = "block" /\ l.ctx = page[g].ctx
    BY <1>0, LineFacts
  <1>2. page[g].ctx.depth = 1 /\ page[g].ctx \in Contexts
    BY <1>0, Fields DEF Good, Shallow
  <1> HIDE DEF l
  <1>3. /\ ctx \in Contexts /\ ctx.depth = 0 /\ ctx.count = page[g].ctx.count
        /\ ctx.visited = page[g].ctx.visited
    <2>1. l.ctx \in Contexts /\ l.ctx.depth = 1
      BY <1>1, <1>2
    <2>2. /\ ctx.count = l.ctx.count /\ ctx.depth = l.ctx.depth - 1
          /\ ctx.visited = l.ctx.visited /\ ctx \in Contexts
      BY <1>0, <2>1, ContextFacts
    <2> HIDE DEF ctx
    <2> QED
      BY <1>1, <2>1, <2>2
  <1>4. e = [l EXCEPT !.ctx = ctx]
    OBVIOUS
  <1> HIDE DEF ctx, e
  <1>5. /\ e \in PageRecords /\ e.parts = Append(page[g].parts, x) /\ e.pc = "block"
        /\ e.ctx = ctx
    BY <1>1, <1>3, <1>4 DEF PageRecords
  <1>6. /\ p \in page[g].ctx.visited
        /\ \A i \in 1..Len(page[g].parts) : page[g].parts[i].path # p
        /\ \A i \in 1..Len(page[g].parts) :
               page[g].parts[i].path \in Remote \cup page[g].ctx.visited
               \/ page[g].ctx.count > MaxImports
    BY <1>0 DEF Good, Named, InBlock
  <1>7. Acceptable(e) /\ Once(e)
    BY <1>0, <1>5, <1>6, EmitGood DEF Good
  <1>8. \A i \in 1..Len(e.parts) :
            e.parts[i].path \in Remote \cup e.ctx.visited \/ e.ctx.count > MaxImports
    <2>1. page[g].parts \in Seq(Parts) /\ x \in Parts /\ x.path = p
      BY <1>0, Fields DEF Parts
    <2> HIDE DEF x
    <2>2. /\ \A i \in 1..Len(page[g].parts) : e.parts[i] = page[g].parts[i]
          /\ e.parts[Len(page[g].parts) + 1] = x
          /\ \A i \in 1..Len(e.parts) : i \in 1..Len(page[g].parts) \/ i = Len(page[g].parts) + 1
      BY <1>5, <2>1, AppendFacts
    <2> QED
      BY <1>3, <1>5, <1>6, <2>1, <2>2
  <1>9. Supplied(e) /\ Shallow(e) /\ Named(e)
    BY <1>3, <1>5, <1>8 DEF Supplied, Shallow, Named, Importing
  <1> QED
    BY <1>5, <1>7, <1>9 DEF Good, e, l

LEMMA FailsGood ==
    ASSUME IInv, NEW g \in Pages, page[g].pc \in Importing
    PROVE  Fails(g) \in PageRecords /\ Good(Fails(g))
  <1>1. "error" \in Contents \cup Answers /\ "error" \notin Dangerous \cup {"deep"}
    BY ConstFacts DEF Answers
  <1> QED
    BY <1>1, EndGood DEF Fails

(* An import goes on: it has the content or the file that it needs next.   *)
LEMMA GoOnGood ==
    ASSUME IInv, NEW g \in Pages, page[g].pc \in Importing, NEW new \in PageRecords,
           new.pc \in Importing, new.ctx = page[g].ctx, new.parts = page[g].parts,
           new.path = page[g].path,
           new.pc = "read" => new.file \in Files,
           new.pc \in {"store", "validate"} => new.content \in Contents
    PROVE  Good(new)
  <1>1. Good(page[g])
    BY PageFacts
  <1>2. Supplied(new)
    BY <1>1 DEF Good, Supplied, Importing
  <1>3. Shallow(new) /\ Named(new)
    BY <1>1 DEF Good, Shallow, Named, Importing, InBlock
  <1>4. Acceptable(new) /\ Once(new)
    BY <1>1 DEF Good, Acceptable, Once
  <1> QED
    BY <1>2, <1>3, <1>4 DEF Good

LEMMA HaveFacts ==
    ASSUME IInv, NEW g \in Pages, NEW c \in Contents \cup {Absent}, NEW place \in Importing
    PROVE  /\ Have(g, c, place) \in PageRecords
           /\ Have(g, c, place).pc = place /\ Have(g, c, place).content = c
           /\ Have(g, c, place).ctx = page[g].ctx /\ Have(g, c, place).parts = page[g].parts
           /\ Have(g, c, place).path = page[g].path /\ Have(g, c, place).file = page[g].file
  BY PageFacts DEF Have, PageRecords, Importing

LEMMA ReadLocalFileStep ==
    ASSUME IInv, NEW g \in Pages, ReadLocalFile(g)
    PROVE  IInv'
  <1>0. /\ page[g] \in PageRecords /\ Good(page[g])
        /\ importCache \in [Paths -> Contents \cup {Absent}]
        /\ disk \in [Files -> Contents \cup {Absent}]
    BY PageFacts
  <1>1. /\ page[g].pc \in {"lookup", "stat", "read", "store"} /\ page[g].pc \in Importing
        /\ page[g].path \in Paths /\ UNCHANGED <<disk, edits>>
    BY <1>0 DEF ReadLocalFile, ReadCached, Stat, Read, Store, In, Importing, Good, Supplied
  <1>2. Fails(g) \in PageRecords /\ Good(Fails(g))
    BY <1>1, FailsGood
  <1>3. CASE ReadCached(g)
    <2>1. PICK c \in Contents \cup {Absent} :
              /\ c = importCache[page[g].path]
              /\ Turns(g, Have(g, c, IF c = Absent THEN "stat" ELSE "validate"))
              /\ UNCHANGED importCache
      BY <1>0, <1>1, <1>3 DEF ReadCached
    <2>2. PICK place \in {"stat", "validate"} :
              /\ Turns(g, Have(g, c, place)) /\ (place = "validate" => c \in Contents)
      BY <2>1
    <2>3. place \in Importing
      BY DEF Importing
    <2>4. Have(g, c, place) \in PageRecords /\ Good(Have(g, c, place))
      BY <1>1, <2>2, <2>3, HaveFacts, GoOnGood
    <2> QED
      BY <1>0, <1>1, <2>1, <2>2, <2>4, PageMove
  <1>4. CASE Stat(g)
    <2> DEFINE f == FirstOnDisk(Candidates[page[g].path])
               new == [page[g] EXCEPT !.file = f, !.pc = "read"]
    <2>1. UNCHANGED importCache
      BY <1>4 DEF Stat
    <2>2. CASE Turns(g, Fails(g))
      BY <1>0, <1>1, <1>2, <2>1, <2>2, PageMove
    <2>3. CASE f # Absent /\ Turns(g, new)
      <3>1. Candidates[page[g].path] \in Seq(Files)
        BY <1>1, ImportsAssumption
      <3>2. f \in Files
        BY <2>3, <3>1, FirstOnDiskType
      <3> HIDE DEF f
      <3>3. /\ new \in PageRecords /\ new.pc = "read" /\ new.file = f /\ new.ctx = page[g].ctx
            /\ new.parts = page[g].parts /\ new.path = page[g].path
        BY <1>0, <3>2 DEF PageRecords
      <3> HIDE DEF new
      <3>4. Good(new)
        BY <1>1, <3>2, <3>3, GoOnGood DEF Importing
      <3> QED
        BY <1>0, <1>1, <2>1, <2>3, <3>3, <3>4, PageMove
    <2> QED
      BY <1>4, <2>2, <2>3 DEF Stat
  <1>5. CASE Read(g)
    <2>1. page[g].file \in Files /\ UNCHANGED importCache
      BY <1>0, <1>5 DEF Read, In, Good, Supplied
    <2>2. PICK c \in Contents \cup {Absent} :
              Turns(g, IF c = Absent THEN Fails(g) ELSE Have(g, c, "store"))
      BY <1>0, <1>5, <2>1 DEF Read
    <2>3. CASE c = Absent
      BY <1>0, <1>1, <1>2, <2>1, <2>2, <2>3, PageMove
    <2>4. CASE c # Absent
      <3>1. "store" \in Importing /\ c \in Contents /\ Turns(g, Have(g, c, "store"))
        BY <2>2, <2>4 DEF Importing
      <3>2. Have(g, c, "store") \in PageRecords /\ Good(Have(g, c, "store"))
        BY <1>1, <3>1, HaveFacts, GoOnGood
      <3> QED
        BY <1>0, <1>1, <2>1, <3>1, <3>2, PageMove
    <2> QED
      BY <2>3, <2>4
  <1>6. CASE Store(g)
    <2> DEFINE new == [page[g] EXCEPT !.pc = "validate"]
    <2>1. /\ page[g].content \in Contents
          /\ importCache' = [importCache EXCEPT ![page[g].path] = page[g].content]
          /\ Turns(g, new)
      BY <1>0, <1>6 DEF Store, In, Good, Supplied
    <2>2. importCache' \in [Paths -> Contents \cup {Absent}]
      BY <1>0, <1>1, <2>1
    <2>3. /\ new \in PageRecords /\ new.pc = "validate" /\ new.content = page[g].content
          /\ new.ctx = page[g].ctx /\ new.parts = page[g].parts /\ new.path = page[g].path
      BY <1>0 DEF PageRecords
    <2> HIDE DEF new
    <2>4. Good(new)
      BY <1>1, <2>1, <2>3, GoOnGood DEF Importing
    <2> QED
      BY <1>1, <2>1, <2>2, <2>3, <2>4, PageMove
  <1> QED
    BY <1>3, <1>4, <1>5, <1>6 DEF ReadLocalFile

LEMMA InjectStep ==
    ASSUME IInv, NEW g \in Pages, Inject(g)
    PROVE  IInv'
  <1> DEFINE c == page[g].content
             new == [Line(page[g], page[g].path, c) EXCEPT !.ctx.depth = @ - 1]
  <1>1. /\ page[g].pc \in Importing /\ c \in Contents /\ UNCHANGED <<disk, edits, importCache>>
        /\ importCache \in [Paths -> Contents \cup {Absent}]
    BY PageFacts DEF Inject, In, Importing, Good, Supplied
  <1>2. CASE Turns(g, Fails(g))
    BY <1>1, <1>2, FailsGood, PageMove
  <1>3. CASE c \notin Dangerous /\ Turns(g, new)
    <2>1. c \in Contents \cup Answers /\ c \notin Dangerous \cup {"deep"}
      BY <1>1, <1>3, ConstFacts
    <2>2. new \in PageRecords /\ Good(new)
      BY <1>1, <2>1, EndGood
    <2> HIDE DEF new
    <2> QED
      BY <1>1, <1>3, <2>2, PageMove
  <1> QED
    BY <1>2, <1>3 DEF Inject, ValidateScriptContent

-----------------------------------------------------------------------------
(* A tag emits one part, into an empty page.                               *)
LEMMA TagEmit ==
    ASSUME NEW pg \in PageRecords, pg.pc = "text", pg.ctx.depth = 0, pg.parts = <<>>,
           NEW p \in Paths, NEW what \in Contents \cup Answers,
           what \notin Dangerous \cup {"deep"}
    PROVE  Emit(pg, p, what) \in PageRecords /\ Good(Emit(pg, p, what))
  <1> DEFINE e == Emit(pg, p, what)
  <1>1. /\ e \in PageRecords /\ e.parts = Append(pg.parts, [path |-> p, what |-> what])
        /\ e.pc = "text" /\ e.ctx = pg.ctx
    BY EmitFacts
  <1>2. Len(pg.parts) = 0
    OBVIOUS
  <1> HIDE DEF e
  <1>3. Acceptable(pg) /\ Once(pg)
    BY <1>2 DEF Acceptable, Once
  <1>4. Acceptable(e) /\ Once(e)
    <2>1. \A i \in 1..Len(pg.parts) : pg.parts[i].path # p
      BY <1>2
    <2> QED
      BY <1>1, <1>3, <2>1, EmitGood
  <1>5. Supplied(e) /\ Shallow(e) /\ Named(e)
    BY <1>1 DEF Supplied, Shallow, Named, Importing, InBlock
  <1> QED
    BY <1>1, <1>4, <1>5 DEF Good, e

LEMMA TagStep ==
    ASSUME IInv, NEW g \in Pages, NEW p \in Paths, Tag(g, p)
    PROVE  IInv'
  <1> DEFINE pg == [page[g] EXCEPT !.left = @ - 1, !.parts = <<>>]
             f == FirstOnDisk(TagCandidates[p])
             new == [pg EXCEPT !.pc = "tag", !.path = p, !.file = f]
  <1>0. /\ page[g] \in PageRecords /\ Good(page[g])
        /\ importCache \in [Paths -> Contents \cup {Absent}]
        /\ page[g].pc = "text" /\ page[g].left > 0 /\ UNCHANGED <<disk, edits, importCache>>
    BY PageFacts DEF Tag, Reads, In
  <1>1. /\ pg \in PageRecords /\ pg.pc = "text" /\ pg.ctx = page[g].ctx /\ pg.parts = <<>>
    <2>1. page[g].left - 1 \in Nat /\ <<>> \in Seq(Parts)
      BY <1>0, Fields
    <2> QED
      BY <1>0, <2>1 DEF PageRecords
  <1>2. pg.ctx.depth = 0
    BY <1>0, <1>1 DEF Good, Shallow, Importing
  <1>3. \/ Turns(g, Emit(pg, p, "remote")) \/ Turns(g, Emit(pg, p, "error"))
        \/ f # Absent /\ Turns(g, new)
    BY DEF Tag
  <1> HIDE DEF pg
  <1>4. /\ {"remote", "error"} \subseteq Contents \cup Answers
        /\ {"remote", "error"} \cap (Dangerous \cup {"deep"}) = {}
    BY ConstFacts DEF Answers
  <1>5. ASSUME NEW what \in {"remote", "error"}, Turns(g, Emit(pg, p, what)) PROVE IInv'
    BY <1>0, <1>1, <1>2, <1>4, <1>5, TagEmit, PageMove
  <1>6. CASE f # Absent /\ Turns(g, new)
    <2>1. TagCandidates[p] \in Seq(Files)
      BY ImportsAssumption
    <2>2. f \in Files
      BY <1>6, <2>1, FirstOnDiskType
    <2> HIDE DEF f
    <2>3. /\ new \in PageRecords /\ new.pc = "tag" /\ new.path = p /\ new.file = f
          /\ new.parts = <<>> /\ new.ctx = pg.ctx
      BY <1>1, <2>2 DEF PageRecords
    <2> HIDE DEF new
    <2>4. Len(new.parts) = 0
      BY <2>3
    <2>5. Good(new)
      BY <1>2, <2>2, <2>3, <2>4 DEF Good, Supplied, Shallow, Named, Acceptable, Once,
                                    Importing, InBlock
    <2> QED
      BY <1>0, <1>6, <2>3, <2>5, PageMove
  <1> QED
    BY <1>3, <1>5, <1>6

LEMMA TagReadStep ==
    ASSUME IInv, NEW g \in Pages, TagRead(g)
    PROVE  IInv'
  <1> DEFINE pg == [page[g] EXCEPT !.pc = "text", !.path = Absent, !.file = Absent]
             c == disk[page[g].file]
  <1>0. /\ page[g] \in PageRecords /\ Good(page[g])
        /\ importCache \in [Paths -> Contents \cup {Absent}]
        /\ disk \in [Files -> Contents \cup {Absent}]
        /\ page[g].pc = "tag" /\ UNCHANGED <<disk, edits, importCache>>
    BY PageFacts DEF TagRead, In
  <1>1. /\ page[g].path \in Paths /\ page[g].file \in Files /\ page[g].parts = <<>>
        /\ page[g].ctx.depth = 0 /\ c \in Contents \cup {Absent}
    BY <1>0 DEF Good, Supplied, Shallow, Named, Importing
  <1>2. /\ pg \in PageRecords /\ pg.pc = "text" /\ pg.ctx = page[g].ctx
        /\ pg.parts = page[g].parts
    BY <1>0 DEF PageRecords
  <1>3. \/ c \in Contents \ Dangerous /\ Turns(g, Emit(pg, page[g].path, c))
        \/ Turns(g, Emit(pg, page[g].path, "error"))
    BY <1>1 DEF TagRead, ValidateScriptContent
  <1>4. PICK what \in Contents \cup Answers : /\ what \notin Dangerous \cup {"deep"}
                                              /\ Turns(g, Emit(pg, page[g].path, what))
    <2>1. "error" \in Answers /\ "error" \notin Dangerous \cup {"deep"} /\ "deep" \notin Contents
      BY ConstFacts DEF Answers
    <2> HIDE DEF pg, c
    <2> QED
      BY <1>3, <2>1
  <1> HIDE DEF pg
  <1> QED
    BY <1>0, <1>1, <1>2, <1>4, TagEmit, PageMove

LEMMA EditStep ==
    ASSUME IInv, NEW f \in Files, Edit(f)
    PROVE  IInv'
  <1>1. UNCHANGED <<importCache, page>> /\ edits' \in 0..Edits
    BY ImportsAssumption DEF IInv, Edit, ImportsTypeOK
  <1>2. disk' \in [Files -> Contents \cup {Absent}]
    <2>1. PICK c \in Contents \cup {Absent} : disk' = [disk EXCEPT ![f] = c]
      BY DEF Edit
    <2> QED
      BY <2>1 DEF IInv, ImportsTypeOK
  <1> QED
    BY <1>1, <1>2 DEF IInv, ImportsTypeOK

LEMMA IInvStep == IInv /\ [ImportsNext]_importVars => IInv'
  <1> SUFFICES ASSUME IInv, [ImportsNext]_importVars PROVE IInv'
    OBVIOUS
  <1>1. ASSUME NEW g \in Pages, ProcessImports(g) PROVE IInv'
    BY <1>1, BlockStep, LineStep, ReadLocalFileStep, InjectStep, TagStep, TagReadStep
       DEF ProcessImports
  <1>2. CASE UNCHANGED importVars
    BY <1>2 DEF importVars, IInv, ImportsTypeOK
  <1> QED
    BY <1>1, <1>2, EditStep DEF ImportsNext

LEMMA IInvHolds == ImportsSpec => []IInv
  BY InitIInv, IInvStep, PTL DEF ImportsSpec

(* Every variable of the import processor has its type, always.            *)
THEOREM ImportsTypeCorrect == ImportsSpec => []ImportsTypeOK
  <1>1. IInv => ImportsTypeOK
    BY DEF IInv
  <1> QED
    BY IInvHolds, <1>1, PTL

(* No page ever gets a content that ValidateScriptContent refuses, however *)
(* files are replaced under the cache and between the look at the size and *)
(* the read.                                                               *)
THEOREM InjectedAcceptable == ImportsSpec => []OnlyAcceptableInjected
  <1>1. IInv => OnlyAcceptableInjected
    BY DEF IInv, Good, Acceptable, OnlyAcceptableInjected
  <1> QED
    BY IInvHolds, <1>1, PTL

(* The depth is the number of imports underway, so its limit never refuses *)
(* an import.                                                              *)
THEOREM DepthHarmless == ImportsSpec => []NeverTooDeep
  <1>1. IInv => NeverTooDeep
    BY DEF IInv, Good, Acceptable, NeverTooDeep
  <1> QED
    BY IInvHolds, <1>1, PTL

(* Every block resolves a path once, whatever the reads and the            *)
(* validations of it end with.                                             *)
THEOREM ResolvedOnce == ImportsSpec => []OncePerBlock
  <1>1. IInv => OncePerBlock
    BY DEF IInv, Good, Once, OncePerBlock
  <1> QED
    BY IInvHolds, <1>1, PTL

-----------------------------------------------------------------------------
(* The places between a miss in the cache and the store.                   *)
Missing == {"stat", "read", "store"}

(* A page that is in one of them now was in one of them before, with the   *)
(* same path, or has just missed the path in the cache.                    *)
LEMMA MissingStep ==
    ASSUME IInv, NEW g \in Pages, ProcessImports(g), page'[g].pc \in Missing
    PROVE  /\ page'[g].path = page[g].path
           /\ page[g].pc \in Missing \/ importCache[page[g].path] = Absent
  <1>0. /\ page \in [Pages -> PageRecords] /\ page[g] \in PageRecords
    BY TypeFacts DEF IInv
  <1>a. ASSUME NEW next, Turns(g, next) PROVE page'[g] = next
    BY <1>0, <1>a DEF Turns
  <1>1. ASSUME ScriptBlock(g) \/ EndBlock(g) \/ EndPage(g) PROVE FALSE
    <2>1. page'[g].pc \in {"block", "text", "done"}
      BY <1>0, <1>1 DEF ScriptBlock, EndBlock, EndPage, Turns, PageRecords, Reads, In
    <2> QED
      BY <2>1 DEF Missing
  <1>2. ASSUME NEW p \in Paths, ImportLine(g, p) PROVE FALSE
    <2> DEFINE pg == [page[g] EXCEPT !.left = @ - 1, !.ctx.count = @ + 1]
    <2>1. PICK what : page'[g] = Line(pg, p, what) \/ page'[g] = [pg EXCEPT !.pc = "lookup", !.path = p, !.ctx = Mark(@, p)]
      BY <1>2, <1>a DEF ImportLine
    <2>2. DOMAIN pg = DOMAIN page[g] /\ "pc" \in DOMAIN page[g]
      BY <1>0 DEF PageRecords
    <2> HIDE DEF pg
    <2>3. page'[g].pc \in {"block", "lookup"}
      BY <2>1, <2>2 DEF Line, Emit
    <2> QED
      BY <2>3 DEF Missing
  <1>3. ASSUME NEW p \in Paths, Tag(g, p) PROVE FALSE
    <2> DEFINE pg == [page[g] EXCEPT !.left = @ - 1, !.parts = <<>>]
    <2>1. PICK what, f : page'[g] = Emit(pg, p, what) \/ page'[g] = [pg EXCEPT !.pc = "tag", !.path = p, !.file = f]
      BY <1>3, <1>a DEF Tag
    <2>2. DOMAIN pg = DOMAIN page[g] /\ "pc" \in DOMAIN page[g] /\ pg.pc = "text"
      BY <1>0, <1>3 DEF PageRecords, Tag, Reads, In
    <2> HIDE DEF pg
    <2>3. page'[g].pc \in {"text", "tag"}
      BY <2>1, <2>2 DEF Emit
    <2> QED
      BY <2>3 DEF Missing
  <1>4. ASSUME TagRead(g) PROVE FALSE
    <2> DEFINE pg == [page[g] EXCEPT !.pc = "text", !.path = Absent, !.file = Absent]
    <2>1. PICK what : page'[g] = Emit(pg, page[g].path, what)
      BY <1>4, <1>a DEF TagRead
    <2>2. DOMAIN pg = DOMAIN page[g] /\ "pc" \in DOMAIN page[g] /\ pg.pc = "text"
      BY <1>0 DEF PageRecords
    <2> HIDE DEF pg
    <2>3. page'[g].pc = "text"
      BY <2>1, <2>2 DEF Emit
    <2> QED
      BY <2>3 DEF Missing
  <1>5. ASSUME NEW what, page'[g] = [Line(page[g], page[g].path, what) EXCEPT !.ctx.depth = @ - 1]
        PROVE  FALSE
    <2>1. "pc" \in DOMAIN page[g]
      BY <1>0 DEF PageRecords
    <2>2. page'[g].pc = "block"
      BY <1>5, <2>1 DEF Line, Emit
    <2> QED
      BY <2>2 DEF Missing
  <1>6. ASSUME Inject(g) PROVE FALSE
    BY <1>5, <1>6, <1>a DEF Inject, Fails
  <1>7. CASE ReadCached(g)
    <2>1. /\ page'[g].path = page[g].path
          /\ page'[g].pc = IF importCache[page[g].path] = Absent THEN "stat" ELSE "validate"
      BY <1>0, <1>7 DEF ReadCached, Have, Turns, PageRecords
    <2> QED
      BY <2>1 DEF Missing
  <1>8. CASE Stat(g) \/ Read(g)
    <2>1. page[g].pc \in Missing
      BY <1>8 DEF Stat, Read, In, Missing
    <2>2. \/ page'[g] = Fails(g)
          \/ \E f : page'[g] = [page[g] EXCEPT !.file = f, !.pc = "read"]
          \/ \E c : page'[g] = Have(g, c, "store")
      BY <1>8, <1>a DEF Stat, Read
    <2>3. CASE page'[g] = Fails(g)
      BY <1>5, <2>3 DEF Fails
    <2>4. CASE page'[g] # Fails(g)
      BY <1>0, <2>1, <2>2, <2>4 DEF PageRecords, Have
    <2> QED
      BY <2>3, <2>4
  <1>9. ASSUME Store(g) PROVE FALSE
    BY <1>0, <1>9 DEF Store, Turns, PageRecords, Missing
  <1> QED
    BY <1>1, <1>2, <1>3, <1>4, <1>6, <1>7, <1>8, <1>9 DEF ProcessImports, ReadLocalFile

(* Once a path is cached and no page is between a miss and a store of it,  *)
(* no step changes its content in the cache or brings a page there.        *)
THEOREM CacheStable == ImportsSpec => CacheSettles
  <1>1. ASSUME IInv, [ImportsNext]_importVars, NEW p \in Paths, Settled(p)
        PROVE  Settled(p)' /\ importCache'[p] = importCache[p]
    <2>0. importCache \in [Paths -> Contents \cup {Absent}] /\ page \in [Pages -> PageRecords]
      BY <1>1, TypeFacts DEF IInv
    <2>1. ASSUME NEW g \in Pages, ProcessImports(g)
          PROVE  Settled(p)' /\ importCache'[p] = importCache[p]
      <3>1. \A h \in Pages \ {g} : page'[h] = page[h]
        BY <2>0, <2>1 DEF ProcessImports, ScriptBlock, EndBlock, EndPage, ImportLine, Tag,
           ReadLocalFile, ReadCached, Stat, Read, Store, Inject, TagRead, Turns
      <3>2. importCache'[p] = importCache[p]
        <4>1. CASE Store(g)
          <5>1. page[g].path # p
            BY <1>1, <4>1 DEF Settled, Store, In
          <5> QED
            BY <2>0, <4>1, <5>1 DEF Store
        <4>2. CASE ~Store(g)
          BY <2>1, <4>2 DEF ProcessImports, ScriptBlock, EndBlock, EndPage, ImportLine, Tag,
             ReadLocalFile, ReadCached, Stat, Read, Inject, TagRead
        <4> QED
          BY <4>1, <4>2
      <3>3. page'[g].path = p => page'[g].pc \notin Missing
        BY <1>1, <2>1, MissingStep DEF Settled, Missing
      <3> QED
        BY <1>1, <3>1, <3>2, <3>3 DEF Settled, Missing
    <2>2. CASE UNCHANGED <<importCache, page>>
      BY <1>1, <2>2 DEF Settled
    <2> QED
      BY <1>1, <2>1, <2>2 DEF ImportsNext, Edit, importVars
  <1>2. IInv /\ [ImportsNext]_importVars
        => [\A p \in Paths : Settled(p) => Settled(p)' /\ importCache'[p] = importCache[p]]_importVars
    BY <1>1
  <1> QED
    BY IInvHolds, <1>2, PTL DEF ImportsSpec, CacheSettles

=============================================================================
