------------------------------ MODULE ProofRules ------------------------------
(***************************************************************************)
(* What must hold of the wires of a game that was read, of the hybrid      *)
(* arguments of a theorem, and of a proof that succeeded.                  *)
(***************************************************************************)
EXTENDS Project

(* The file a game or a theorem was read from: the last one of that name   *)
(* so far.                                                                 *)
FilesNamed(name) == {n \in 1..file : Files[n].name = name}
FileOf(name) == Files[CHOOSE n \in FilesNamed(name) : \A o \in FilesNamed(name) : o <= n]

-----------------------------------------------------------------------------
(* Games. *)

NewGames == IF stage = "games" /\ block = 0 /\ err = "" THEN DOMAIN games ELSE {}

(* The bodies in the first blocks of a file that have wires of an          *)
(* instance.                                                               *)
ComposeBlocks(blocks, k) == {n \in 1..k : blocks[n].b = "compose"}
BodiesUpTo(blocks, k) == UNION {{n} \X DOMAIN blocks[n].bodies : n \in ComposeBlocks(blocks, k)}
BodiesFor(blocks, k, instance) == {p \in BodiesUpTo(blocks, k) : blocks[p[1]].bodies[p[2]].src = instance}

(* A wire leads from an import to an oracle of the same signature.         *)
WireLeads(game, edge) ==
  /\ {edge.from, edge.to} \subseteq DOMAIN game.insts
  /\ LET from == game.insts[edge.from].pkg
         to   == game.insts[edge.to].pkg
     IN  \E i \in ImportNamed(from, NameOf(edge)) : \E o \in DOMAIN to.oracles :
           edge.sig = to.oracles[o].sig /\ SigsMatch(edge.sig, from.imports[i]) = "match"
Rivals(game, m, o) ==
  m # o /\ game.edges[m].from = game.edges[o].from /\ NameOf(game.edges[m]) = NameOf(game.edges[o])

WiresFit(game, blocks) ==
  /\ \A n \in DOMAIN game.insts : \A import \in Range(game.insts[n].pkg.imports) :
        \E edge \in Range(game.edges) : edge.from = n /\ NameOf(edge) = import.name
  /\ \A edge \in Range(game.edges) : WireLeads(game, edge)
  /\ \A m, o \in DOMAIN game.edges : Rivals(game, m, o) =>
        \E p, q \in BodiesFor(blocks, Len(blocks), game.insts[game.edges[m].from].name) : p # q

(* In an accepted game every import of every instance has a wire, and it   *)
(* leads to an oracle of that signature; it has a second one only if       *)
(* several compose bodies are written for the instance                     *)
(* (handle_edges_compose_assign_list, which looks for duplicates in one    *)
(* body at a time; handle_comp_spec_list).                                 *)
WiresComplete == \A g \in NewGames : WiresFit(games[g], FileOf(g).blocks)

-----------------------------------------------------------------------------
(* Theorems. *)

NewTheorems == IF stage = "theorems" /\ block = 0 THEN DOMAIN theorems ELSE {}

HybridSpecs(t) == {b \in Range(FileOf(t).blocks) : b.b = "hybrid"}

(* The three instances of a hybrid argument in a theorem.                  *)
SidesFit(theorem, h) ==
  LET real  == InstanceOf(theorem, FalseSide(h.name))
      step  == InstanceOf(theorem, NextSide(h.name))
      ideal == InstanceOf(theorem, TrueSide(h.name))
      consts == Keys(games[h.sides[1].game].consts)
      Differ(l, r, c) == FirstOf(l.values, c) # FirstOf(r.values, c)
  IN  /\ \A name \in {FalseSide(h.name), NextSide(h.name), TrueSide(h.name)} :
            GameInstances(theorem, name) # {}
      /\ \A c \in consts \ {h.loop} : ~Differ(real, step, c)
      /\ h.loop \in consts => FirstOf(step.values, h.loop) = Add(One, FirstOf(real.values, h.loop))
      /\ Len(h.sides) = 1 => {c \in consts : Differ(real, ideal, c)} = Range(h.bit) \intersect consts

(* The instances that a hybrid argument generates are there and differ in  *)
(* nothing but the loop index, which steps by one, and the bit, as far as  *)
(* the game has constants of these names (patch_game_instance,             *)
(* parser/theorem.rs).                                                     *)
HybridSides ==
  \A t \in NewTheorems : \A h \in HybridSpecs(t) : SidesFit(theorems[t], h)

-----------------------------------------------------------------------------
Succeeded == stage = "done"
AskedHops ==
  {h \in UNION {{t} \X (1..Len(theorems[t].hops)) : t \in DOMAIN theorems} :
      /\ IsProved(theorems[h[1]].hops[h[2]])
      /\ Asked(command.theorem, h[1]) /\ Asked(command.hop, h[2] - 1)}
TargetClaims == {"equal-aborts", "invariant", "same-output"}

(* When no flag leaves anything out it has confirmed, for every oracle     *)
(* that the right instance exports, every claim an induction step needs    *)
(* that is not admitted in all of the oracle's trees, that the randomness  *)
(* is mapped injectively, and the invariant at the start (Project::prove,  *)
(* verify_equivalence, verify_induction_step).                             *)
ObligationOf(h, o, c) == <<h[1], h[2] - 1, o, c>>
SuccessCoversOracles ==
  Succeeded /\ command.oracle = <<>> /\ command.claim = <<>> /\ command.only = "" =>
    \A h \in AskedHops :
      LET theorem == theorems[h[1]]
          hop == theorem.hops[h[2]]
          Admitted(o, c) == \E tree \in Range(hop.trees) : tree.oracle = o /\
                              \E claim \in tree.claims : claim.name = c /\ claim.admitted
      IN  /\ ObligationOf(h, Start, "invariant") \in proved
          /\ \A o \in ExportNames(theorem, hop.right) : \A c \in TargetClaims \union Injectivity :
                ObligationOf(h, o, c) \in proved \/ Admitted(o, c)

(* A proof that succeeds with nothing confirmed was asked for a theorem, a *)
(* hop, an oracle or a claim that the project has not, or for an admitted  *)
(* claim (Project::prove).                                                 *)
SilentOnlyIfNothingNamed ==
  Succeeded /\ proved = {} =>
    \A h \in AskedHops :
      LET trees == Range(theorems[h[1]].hops[h[2]].trees)
          Repeated(tree) == \E other \in trees : other # tree /\ other.oracle = tree.oracle
          Lemmas(tree) ==
            IF command.only = "injective" \/ Repeated(tree) THEN {}
            ELSE {c.name : c \in {c \in tree.claims : ~c.admitted}}
      IN  IF command.only = "start"
          THEN command.claim # <<>> /\ "invariant" \notin command.claim[1]
          ELSE \A tree \in trees :
                 \/ command.oracle \notin {<<>>, <<tree.oracle>>}
                 \/ /\ command.claim # <<>>
                    /\ command.claim[1] \cap (Lemmas(tree) \union Injectivity) = {}

(* What success stands for: without flags, everything the project asks to  *)
(* be proved; with flags, something, unless they name what is not there    *)
(* (Project::prove).                                                       *)
SuccessIsEarned == SuccessCoversOracles /\ SilentOnlyIfNothingNamed
=============================================================================
