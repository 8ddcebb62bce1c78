-------------------------------- MODULE Project --------------------------------
(***************************************************************************)
(* A project and the prove command (project/load.rs, project/mod.rs,       *)
(* gamehops/equivalence/mod.rs): all packages are read, then all games,    *)
(* then all theorems, one block of a file at a time; then the hops of the  *)
(* theorems are proved one after the other.                                *)
(*                                                                         *)
(* The prover of one hop is taken as module EquivalenceVerdict has it: it  *)
(* decides every obligation it is asked for and fails if one of them does. *)
(***************************************************************************)
EXTENDS TheoremParser

CONSTANTS
  Inputs,                 (* the projects: [files, commands, probes]       *)
  ReadPackageSpec(_, _),  (* a block of a package, as in PackageParser     *)
  SortsAreNamed(_, _)     (* whether all sorts of a theorem and one of its *)
                          (* game instances can be named, as in SortNames  *)

(* files has the fields packages, games and theorems: sequences of         *)
(* [name, blocks].  A command is [theorem, hop, oracle, claim, only,       *)
(* refuted]: the flags, each <<>> or what it says, of which claim is a      *)
(* pattern and says <<the names it matches>>; only is "", or "start" or    *)
(* "injective" where the flag of that name is given; refuted is the set of *)
(* the obligations that do not hold, <<theorem, hop, oracle, claim>>.      *)
(* probes are expressions and types for property InferenceIsExact.         *)

(* What the grammar makes of the files and of a command line.              *)
IsList(s) == s \in Seq(Range(s))
IsOptional(x) == x = <<>> \/ x = <<x[1]>>
GameBlockWritten(b) ==
  /\ b.b \in {"const", "instance", "compose"}
  /\ b.b = "compose" => IsList(b.bodies) /\ \A n \in DOMAIN b.bodies : IsList(b.bodies[n].wires)
HopWritten(hop) ==
  /\ hop.kind \in {"conjecture", "reduction", "equivalence", "hybrid"}
  /\ hop.kind \in {"reduction", "hybrid"} => hop.accepted \in BOOLEAN
  /\ hop.kind \in {"equivalence", "hybrid"} => IsList(hop.trees)
SideWritten(side) ==
  IsList(side.blocks) /\ \A b \in Range(side.blocks) : b.b = "params" => IsList(b.list)
BlockWritten(b) ==
  /\ b.b \in {"const", "instance", "hybrid", "stated", "hops"}
  /\ b.b = "hybrid" => /\ IsOptional(b.bit) /\ IsList(b.sides) /\ Len(b.sides) \in {1, 2}
                       /\ \A n \in DOMAIN b.sides : SideWritten(b.sides[n])
  /\ b.b = "hops" => IsList(b.hops) /\ \A n \in DOMAIN b.hops : HopWritten(b.hops[n])

ASSUME InputsAssumption ==
  \A i \in Inputs :
    /\ IsList(i.files.packages) /\ IsList(i.files.games) /\ IsList(i.files.theorems)
    /\ \A f \in Range(i.files.games) :
          IsList(f.blocks) /\ \A n \in DOMAIN f.blocks : GameBlockWritten(f.blocks[n])
    /\ \A f \in Range(i.files.theorems) :
          IsList(f.blocks) /\ \A n \in DOMAIN f.blocks : BlockWritten(f.blocks[n])

VARIABLES
  input,     (* the project                                                *)
  command,   (* the command line, once it matters                          *)
  stage,     (* "packages", "games", "theorems", "prove" or "done"         *)
  file,      (* the files of this stage that have been read                *)
  block,     (* the blocks of the next file that have been read            *)
  ctx,       (* the context of the parser in that file                     *)
  packages,  (* the packages by name                                       *)
  games,     (* the games by name                                          *)
  theorems,  (* the theorems by name                                       *)
  left,      (* the theorems that prove has not started                    *)
  current,   (* the one it works on, and how many of its hops are done     *)
  proved,    (* the obligations the prover has confirmed                   *)
  err        (* "", "error" or "panic"                                     *)

vars == <<input, command, stage, file, block, ctx, packages, games, theorems, left, current, proved, err>>

Nothing == <<>>
Nobody == <<>>
NoCommand == [theorem |-> <<>>, hop |-> <<>>, oracle |-> <<>>, claim |-> <<>>, only |-> "", refuted |-> {}]

Init ==
  /\ input \in Inputs /\ command = NoCommand
  /\ stage = "packages" /\ file = 0 /\ block = 0
  /\ ctx = EmptyContext
  /\ packages = Nothing /\ games = Nothing /\ theorems = Nothing
  /\ left = {} /\ current = Nobody /\ proved = {} /\ err = ""

-----------------------------------------------------------------------------
(* Reading the files of a stage. *)

Files == CASE stage = "packages" -> input.files.packages
           [] stage = "games"    -> input.files.games
           [] stage = "theorems" -> input.files.theorems
Reading(at) == err = "" /\ stage = at /\ file < Len(Files)
Current == Files[file + 1]
Fresh == CASE stage = "packages" -> EmptyContext
           [] stage = "games"    -> GameContext(Current.name)
           [] stage = "theorems" -> TheoremContext(Current.name)
Context == IF block = 0 THEN Fresh ELSE ctx

Block == Current.blocks[block + 1]
ReadBlock(at, read) ==
  /\ Reading(at) /\ block < Len(Current.blocks)
  /\ ctx' = read
  /\ err' = read.err
  /\ block' = block + 1
  /\ UNCHANGED <<input, command, stage, file, packages, games, theorems, left, current, proved>>

ReadPackageBlock == ReadBlock("packages", ReadPackageSpec(Context, Block))
ReadGameBlock    == ReadBlock("games", HandleSpec(Context, packages, Block))
ReadTheoremBlock == ReadBlock("theorems", HandleTheoremSpec(Context, games, Block))

EndOfFile(at) == Reading(at) /\ block = Len(Current.blocks)
NextFile ==
  /\ file' = file + 1 /\ block' = 0 /\ ctx' = EmptyContext
  /\ UNCHANGED <<input, command, stage, left, current, proved>>

Inserted(table, name, what) ==
  [n \in DOMAIN table \union {name} |-> IF n = name THEN what ELSE table[n]]

(* A second package of the same name is an error; a second game or theorem *)
(* takes the place of the first.                                           *)
FinishPackage ==
  /\ EndOfFile("packages") /\ NextFile
  /\ err' = IF Current.name \in DOMAIN packages THEN "error" ELSE ""
  /\ packages' = Inserted(packages, Current.name, Context)
  /\ UNCHANGED <<games, theorems>>
FinishGameFile ==
  /\ EndOfFile("games") /\ NextFile
  /\ LET game == FinishGame(Context)
     IN  err' = game.err /\ games' = Inserted(games, Current.name, game)
  /\ UNCHANGED <<packages, theorems>>
FinishTheorem ==
  /\ EndOfFile("theorems") /\ NextFile
  /\ theorems' = Inserted(theorems, Current.name, Context)
  /\ UNCHANGED <<packages, games, err>>

NextStage ==
  /\ err = "" /\ stage \in {"packages", "games", "theorems"} /\ file = Len(Files)
  /\ stage' = CASE stage = "packages" -> "games"
                [] stage = "games"    -> "theorems"
                [] stage = "theorems" -> "prove"
  /\ file' = 0
  /\ left' = IF stage = "theorems" THEN DOMAIN theorems ELSE {}
  /\ command' \in IF stage = "theorems" THEN input.commands ELSE {command}
  /\ UNCHANGED <<input, block, ctx, packages, games, theorems, current, proved, err>>

-----------------------------------------------------------------------------
(* The prove command. *)

Asked(flag, x) == flag \in {<<>>, <<x>>}
ClaimIsAsked(flag, c) == flag = <<>> \/ c \in flag[1]

(* The obligations of a hop that the flags leave: for every oracle that    *)
(* the left instance exports the claims of its first tree and the checks   *)
(* of the randomness mapping, and the invariant at the start.              *)
InstanceOf(theorem, name) == theorem.insts[CHOOSE n \in GameInstances(theorem, name) : TRUE]
Exports(theorem, name) == InstanceOf(theorem, name).game.exports
ExportNames(theorem, name) == {NameOf(e) : e \in Range(Exports(theorem, name))}
TreesOf(hop, oracle) == {n \in DOMAIN hop.trees : hop.trees[n].oracle = oracle}
TreeOf(hop, oracle) ==
  hop.trees[CHOOSE n \in TreesOf(hop, oracle) : \A o \in TreesOf(hop, oracle) : n <= o]
Start == "start"
Injectivity == {"injective-randmap-2-to-1", "injective-randmap-1-to-2"}
AtStart(flags) == IF ClaimIsAsked(flags.claim, "invariant") THEN {<<Start, "invariant">>} ELSE {}
OracleClaims(theorem, hop, o, flags) ==
  {c \in IF flags.only = "injective" THEN Injectivity
         ELSE Injectivity \union {c.name : c \in {c \in TreeOf(hop, o).claims : ~c.admitted}} :
      ClaimIsAsked(flags.claim, c)}
OfOracles(theorem, hop, flags) ==
  UNION {{o} \X OracleClaims(theorem, hop, o, flags)
           : o \in {o \in ExportNames(theorem, hop.left) : Asked(flags.oracle, o)}}

(* Faulty variants: NoStart forgets the start, NamesOnly compares no       *)
(* signatures.                                                             *)
NoStart(theorem, hop, flags) ==
  IF flags.only = "start" THEN AtStart(flags) ELSE OfOracles(theorem, hop, flags)
Obligations(theorem, hop, flags) ==
  IF flags.only = "start" THEN AtStart(flags)
  ELSE IF flags.oracle # <<>> \/ flags.only = "injective" THEN OfOracles(theorem, hop, flags)
  ELSE AtStart(flags) \union OfOracles(theorem, hop, flags)

NamesOnly(theorem, hop) ==
  IF ExportNames(theorem, hop.left) = ExportNames(theorem, hop.right)
     /\ ExportNames(theorem, hop.left) = {t.oracle : t \in Range(hop.trees)}
  THEN "" ELSE "error"
SignaturesOf(theorem, name, oracle) ==
  {e.sig : e \in {e \in Range(Exports(theorem, name)) : NameOf(e) = oracle}}
VerifyExportsMatch(theorem, hop) ==
  LET names == ExportNames(theorem, hop.left)
      sigs == UNION {SignaturesOf(theorem, hop.left, o) \X SignaturesOf(theorem, hop.right, o) : o \in names}
      matches == {SigsMatch(p[1], p[2]) : p \in sigs}
  IN  IF names # ExportNames(theorem, hop.right) \/ names = {} THEN "error"
      ELSE IF "panic" \in matches THEN "panic"
      ELSE IF "differ" \in matches THEN "error"
      ELSE IF names # {t.oracle : t \in Range(hop.trees)} THEN "error"
      ELSE ""

(* What fails before anything is proved.                                   *)
Prepare(theorem, hop) ==
  LET exports == VerifyExportsMatch(theorem, hop)
  IN  IF exports # "" THEN exports
      ELSE IF \A name \in {hop.left, hop.right} : SortsAreNamed(theorem, InstanceOf(theorem, name)) THEN ""
      ELSE "panic"

(* The theorems come in the order of their names; here in any order.       *)
StartTheorem ==
  /\ err = "" /\ stage = "prove" /\ current = Nobody
  /\ \E t \in left : current' = <<t, 0>> /\ left' = left \ {t}
  /\ UNCHANGED <<input, command, stage, file, block, ctx, packages, games, theorems, proved, err>>

Theorem == theorems[current[1]]
Hop == Theorem.hops[current[2] + 1]
AtHop == err = "" /\ stage = "prove" /\ current # Nobody /\ current[2] < Len(Theorem.hops)
HopAsked == Asked(command.theorem, current[1]) /\ Asked(command.hop, current[2])
IsProved(hop) == hop.kind \in {"equivalence", "hybrid"}

PassHop ==
  /\ AtHop /\ ~(HopAsked /\ IsProved(Hop))
  /\ current' = [current EXCEPT ![2] = @ + 1]
  /\ UNCHANGED <<input, command, stage, file, block, ctx, packages, games, theorems, left, proved, err>>

(* What the prover confirms and the verdict on the hop.                    *)
Confirmed(asked, refuted) == asked \ refuted
Verdict(prepared, failed) ==
  IF prepared # "" THEN prepared
  ELSE IF failed # {} THEN "error"
  ELSE ""
ProveHop ==
  /\ AtHop /\ HopAsked /\ IsProved(Hop)
  /\ LET prepared == Prepare(Theorem, Hop)
         asked == IF prepared # "" THEN {}
                  ELSE {<<current[1], current[2], o[1], o[2]>> : o \in Obligations(Theorem, Hop, command)}
     IN  /\ proved' = proved \union Confirmed(asked, command.refuted)
         /\ err' = Verdict(prepared, asked \intersect command.refuted)
  /\ current' = [current EXCEPT ![2] = @ + 1]
  /\ UNCHANGED <<input, command, stage, file, block, ctx, packages, games, theorems, left>>

FinishTheoremProof ==
  /\ err = "" /\ stage = "prove" /\ current # Nobody /\ current[2] = Len(Theorem.hops)
  /\ current' = Nobody
  /\ UNCHANGED <<input, command, stage, file, block, ctx, packages, games, theorems, left, proved, err>>

Done ==
  /\ err = "" /\ stage = "prove" /\ current = Nobody /\ left = {}
  /\ stage' = "done"
  /\ UNCHANGED <<input, command, file, block, ctx, packages, games, theorems, left, current, proved, err>>

Stop == (err # "" \/ stage = "done") /\ UNCHANGED vars

Next ==
  \/ ReadPackageBlock \/ ReadGameBlock \/ ReadTheoremBlock
  \/ FinishPackage \/ FinishGameFile \/ FinishTheorem \/ NextStage
  \/ StartTheorem \/ PassHop \/ ProveHop \/ FinishTheoremProof \/ Done \/ Stop

Spec == Init /\ [][Next]_vars
=============================================================================
