------------------------------ MODULE Imports -------------------------------
(***************************************************************************)
(* The import processor: ProcessImports, ProcessToCallTags and             *)
(* ProcessScriptSrcLS of internal/imports/import_processor.go over         *)
(* ReadLocalFile, ValidateLocalPath, ResolveLocalPath and                  *)
(* ValidateScriptContent of internal/security/security.go.                 *)
(*                                                                         *)
(* Every page is processed by a goroutine of its own; all of them share    *)
(* the import cache and the files on disk, which others may edit at any    *)
(* time.  The text of a page is its sequence of constructs: script blocks  *)
(* with import lines, and tags that include a file.  What comes out of a   *)
(* block is the sequence of its parts.                                     *)
(***************************************************************************)
EXTENDS Integers, Sequences, FiniteSets, SequencesExt

CONSTANTS Pages,        \* the pages that are processed
          Paths,        \* the paths that pages name
          Remote,       \* the paths that are URLs
          Forbidden,    \* the paths that ValidateLocalPath refuses
          TagForbidden, \* those that ResolveLocalPath refuses too
          Candidates,   \* Candidates[p]: the files that ValidateLocalPath
                        \* looks for, in this order
          TagCandidates,\* TagCandidates[p]: those of ResolveLocalPath
          Files,        \* the files on disk
          Contents,     \* what a file may contain
          Dangerous,    \* the contents with a blocked pattern or too long
          Huge,         \* the contents above MaxFileSize
          MaxImports,   \* MaxImportsPerFile
          MaxDepth,     \* MaxImportDepth
          Constructs,   \* bound: the number of constructs of each page
          Edits,        \* bound: the changes of files on disk
          Absent        \* no such file, not in the cache

(* The remarks that take the place of a content.                           *)
Answers == {"limit", "remote", "deep", "already", "error"}

ASSUME ImportsAssumption ==
    /\ Remote \subseteq Paths /\ Forbidden \subseteq Paths
    /\ TagForbidden \subseteq Forbidden
    /\ Candidates \in [Paths -> Seq(Files)]
    /\ TagCandidates \in [Paths -> Seq(Files)]
    /\ Huge \subseteq Dangerous /\ Dangerous \subseteq Contents
    /\ {MaxImports, MaxDepth} \subseteq Nat \ {0}
    /\ Constructs \in [Pages -> Nat] /\ Edits \in Nat
    /\ Absent \notin Contents /\ Answers \cap Contents = {}

VARIABLES
    disk,         \* disk[f]: the content of file f, or Absent
    edits,        \* the number of changes made to the disk
    importCache,  \* ImportProcessor.ImportCache
    page          \* page[g]: the progress of ProcessImports for page g

importVars == <<disk, edits, importCache, page>>

NewImportContext == [count |-> 0, depth |-> 0, visited |-> {}]

NewPage(g) == [pc |-> "text", left |-> Constructs[g], importCounter |-> 0,
               ctx |-> NewImportContext, parts |-> <<>>,
               path |-> Absent, file |-> Absent, content |-> Absent]

InitImports ==
    /\ disk \in [Files -> Contents \cup {Absent}]
    /\ edits = 0
    /\ importCache = [p \in Paths |-> Absent]
    /\ page = [g \in Pages |-> NewPage(g)]

ValidateScriptContent(c) == c \notin Dangerous

(* The first of the files that os.Stat finds.                              *)
FirstOnDisk(files) ==
    LET i == SelectInSeq(files, LAMBDA f : disk[f] # Absent)
    IN  IF i = 0 THEN Absent ELSE files[i]

-----------------------------------------------------------------------------
Turns(g, next) == page' = [page EXCEPT ![g] = next]

In(g, place) == page[g].pc = place

(* Page g reads its next construct.                                        *)
Reads(g, place) == In(g, place) /\ page[g].left > 0

Emit(pg, p, what) ==
    [pg EXCEPT !.parts = Append(@, [path |-> p, what |-> what])]

(* A line of a block is done: DecrementDepth has run if resolveImport got  *)
(* as far as IncrementDepth.                                               *)
Line(pg, p, what) ==
    [Emit(pg, p, what) EXCEPT !.pc = "block", !.path = Absent, !.file = Absent,
                              !.content = Absent]

(* resolveImport returns an error, with the deferred DecrementDepth.       *)
Fails(g) ==
    [Line(page[g], page[g].path, "error") EXCEPT !.ctx.depth = @ - 1]

-----------------------------------------------------------------------------
(* ProcessImports: the next script block, with a context of its own.       *)
ScriptBlock(g) ==
    /\ Reads(g, "text")
    /\ LET pg == [page[g] EXCEPT !.left = @ - 1, !.importCounter = @ + 1] IN
       \/ /\ pg.importCounter <= MaxImports
          /\ Turns(g, [pg EXCEPT !.pc = "block", !.ctx = NewImportContext,
                                   !.parts = <<>>])
       \/ /\ pg.importCounter > MaxImports
          /\ Turns(g, pg)
    /\ UNCHANGED <<disk, edits, importCache>>

EndBlock(g) ==
    /\ In(g, "block")
    /\ Turns(g, [page[g] EXCEPT !.pc = "text"])
    /\ UNCHANGED <<disk, edits, importCache>>

(* Mutant: CheckAndMarkVisited does not mark.                              *)
MarkNothing(ctx, p) == [ctx EXCEPT !.depth = @ + 1]

(* CheckAndMarkVisited marks the path, then the depth is incremented.      *)
Mark(ctx, p) == [ctx EXCEPT !.visited = @ \cup {p}, !.depth = @ + 1]

(* processScriptBlock, one import line, up to the call of ReadLocalFile.   *)
ImportLine(g, p) ==
    /\ Reads(g, "block")
    /\ LET pg == [page[g] EXCEPT !.left = @ - 1, !.ctx.count = @ + 1] IN
       Turns(g,
         IF pg.ctx.count > MaxImports THEN Line(pg, p, "limit")
         ELSE IF p \in Remote THEN Line(pg, p, "remote")
         ELSE IF pg.ctx.depth >= MaxDepth THEN Line(pg, p, "deep")
         ELSE IF p \in pg.ctx.visited THEN Line(pg, p, "already")
         ELSE [pg EXCEPT !.pc = "lookup", !.path = p, !.ctx = Mark(@, p)])
    /\ UNCHANGED <<disk, edits, importCache>>

-----------------------------------------------------------------------------
(* ReadLocalFile: the cache under a read lock, then the disk, then the     *)
(* cache under the write lock, whatever it holds by then.                  *)

Have(g, c, place) == [page[g] EXCEPT !.content = c, !.pc = place]

(* Mutant: what is in the cache is not validated again.                    *)
ReadCachedTrusting(g) ==
    /\ In(g, "lookup")
    /\ LET c == importCache[page[g].path] IN
       IF c # Absent
       THEN Turns(g, [Line(page[g], page[g].path, c) EXCEPT !.ctx.depth = @ - 1])
       ELSE Turns(g, Have(g, Absent, "stat"))
    /\ UNCHANGED <<disk, edits, importCache>>

(* Mutant: the cache is written and never read.                            *)
ReadCachedNothing(g) ==
    /\ In(g, "lookup")
    /\ Turns(g, Have(g, Absent, "stat"))
    /\ UNCHANGED <<disk, edits, importCache>>

ReadCached(g) ==
    /\ In(g, "lookup")
    /\ LET c == importCache[page[g].path] IN
       Turns(g, Have(g, c, IF c = Absent THEN "stat" ELSE "validate"))
    /\ UNCHANGED <<disk, edits, importCache>>

(* ValidateLocalPath: policy, existence, size.                             *)
Stat(g) ==
    /\ In(g, "stat")
    /\ LET f == FirstOnDisk(Candidates[page[g].path]) IN
       IF page[g].path \in Forbidden \/ f = Absent \/ disk[f] \in Huge
       THEN Turns(g, Fails(g))
       ELSE Turns(g, [page[g] EXCEPT !.file = f, !.pc = "read"])
    /\ UNCHANGED <<disk, edits, importCache>>

Read(g) ==
    /\ In(g, "read")
    /\ LET c == disk[page[g].file] IN
       Turns(g, IF c = Absent THEN Fails(g) ELSE Have(g, c, "store"))
    /\ UNCHANGED <<disk, edits, importCache>>

Store(g) ==
    /\ In(g, "store")
    /\ importCache' = [importCache EXCEPT ![page[g].path] = page[g].content]
    /\ Turns(g, [page[g] EXCEPT !.pc = "validate"])
    /\ UNCHANGED <<disk, edits>>

ReadLocalFile(g) == ReadCached(g) \/ Stat(g) \/ Read(g) \/ Store(g)

(* The rest of resolveImport.                                              *)
Inject(g) ==
    /\ In(g, "validate")
    /\ LET c == page[g].content IN
       Turns(g, IF ValidateScriptContent(c)
                  THEN [Line(page[g], page[g].path, c) EXCEPT !.ctx.depth = @ - 1]
                  ELSE Fails(g))
    /\ UNCHANGED <<disk, edits, importCache>>

-----------------------------------------------------------------------------
(* A tag with to-call, or a script with src and ls: no cache, no context.  *)
Tag(g, p) ==
    /\ Reads(g, "text")
    /\ LET pg == [page[g] EXCEPT !.left = @ - 1, !.parts = <<>>]
           f == FirstOnDisk(TagCandidates[p])
       IN  Turns(g, IF p \in Remote THEN Emit(pg, p, "remote")
                    ELSE IF p \in TagForbidden \/ f = Absent THEN Emit(pg, p, "error")
                    ELSE [pg EXCEPT !.pc = "tag", !.path = p, !.file = f])
    /\ UNCHANGED <<disk, edits, importCache>>

TagRead(g) ==
    /\ In(g, "tag")
    /\ LET c == disk[page[g].file]
           pg == [page[g] EXCEPT !.pc = "text", !.path = Absent, !.file = Absent]
       IN  Turns(g, IF c # Absent /\ ValidateScriptContent(c)
                      THEN Emit(pg, page[g].path, c)
                      ELSE Emit(pg, page[g].path, "error"))
    /\ UNCHANGED <<disk, edits, importCache>>

EndPage(g) ==
    /\ In(g, "text")
    /\ Turns(g, [page[g] EXCEPT !.pc = "done"])
    /\ UNCHANGED <<disk, edits, importCache>>

ProcessImports(g) ==
    \/ ScriptBlock(g) \/ EndBlock(g) \/ EndPage(g)
    \/ \E p \in Paths : ImportLine(g, p) \/ Tag(g, p)
    \/ ReadLocalFile(g) \/ Inject(g) \/ TagRead(g)

(* Somebody writes, replaces or removes a file.                            *)
Edit(f) ==
    /\ edits < Edits
    /\ edits' = edits + 1
    /\ \E c \in (Contents \cup {Absent}) \ {disk[f]} :
           disk' = [disk EXCEPT ![f] = c]
    /\ UNCHANGED <<importCache, page>>

ImportsNext ==
    \/ \E g \in Pages : ProcessImports(g)
    \/ \E f \in Files : Edit(f)

ImportsSpec == InitImports /\ [][ImportsNext]_importVars

-----------------------------------------------------------------------------
(* Every variable of the import processor has its type.                    *)
ImportsTypeOK ==
    /\ disk \in [Files -> Contents \cup {Absent}]
    /\ edits \in 0..Edits
    /\ importCache \in [Paths -> Contents \cup {Absent}]
    /\ page \in [Pages ->
         [pc : {"text", "block", "lookup", "stat", "read", "store", "validate",
                "tag", "done"},
          left : Nat, importCounter : Nat,
          ctx : [count : Nat, depth : Nat, visited : SUBSET Paths],
          parts : Seq([path : Paths, what : Contents \cup Answers]),
          path : Paths \cup {Absent}, file : Files \cup {Absent},
          content : Contents \cup {Absent}]]

(* No page gets a content that ValidateScriptContent refuses: not from the *)
(* cache, which is filled before the validation, and not from a file that  *)
(* was replaced between os.Stat, which looks at its size, and the read.    *)
OnlyAcceptableInjected ==
    \A g \in Pages : \A i \in 1..Len(page[g].parts) :
        page[g].parts[i].what \notin Dangerous

(* The imports of a block are not nested, so its depth is the number of    *)
(* imports underway, one or none, whatever has failed before, and the      *)
(* limit on the depth never refuses an import.                             *)
NeverTooDeep ==
    \A g \in Pages : \A i \in 1..Len(page[g].parts) :
        page[g].parts[i].what # "deep"

(* A block resolves a path once: the first line that names it is answered  *)
(* with the content or with an error, and every later one with a remark,   *)
(* so no content is injected twice.                                        *)
OncePerBlock ==
    \A g \in Pages : \A i, j \in 1..Len(page[g].parts) :
        i < j /\ page[g].parts[i].path = page[g].parts[j].path
        => page[g].parts[j].what \in {"already", "remote", "limit"}

(* Nobody is between a miss in the cache for p and its store.              *)
Settled(p) ==
    /\ importCache[p] # Absent
    /\ \A g \in Pages : page[g].path = p =>
           page[g].pc \notin {"stat", "read", "store"}

(* The cache has no expiry: once a path is cached, and the pages that had  *)
(* missed it before are through, its content never changes again, whatever *)
(* happens to the file.                                                    *)
CacheSettles ==
    [][\A p \in Paths : Settled(p) =>
           Settled(p)' /\ importCache'[p] = importCache[p]]_importVars

=============================================================================
