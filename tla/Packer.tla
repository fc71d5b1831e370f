------------------------------- MODULE Packer -------------------------------
(***************************************************************************)
(* Packing a model into one file per piece and a manifest:                 *)
(* src/nunspark/packer.py, manifest.py and piece_store.py.                 *)
(*                                                                         *)
(* The packer may be killed at any time and started again, over what is    *)
(* there.  The manifest is written last, in two steps as well: for a kill  *)
(* between them is_packed finds a manifest and Manifest.load raises.       *)
(***************************************************************************)
EXTENDS Architectures

CONSTANTS
  Configs,     \* the configurations packed
  MaxPacks     \* bound: how often packing starts

ASSUME PackerAssumption == \A c \in Configs : c.n \in Nat \ {0} /\ c.experts \in Nat

VARIABLES
  config,      \* the model's config.json
  files,       \* piece id -> "part" or "whole"; absent if there is no such file
  manifest,    \* the pieces manifest.json lists; {} if there is none that can be read
  todo,        \* the pieces pack() has still to write, in order
  saving,      \* manifest.json: "no", "due" after the last piece, "part" written
  over,        \* a pack was started over a packed directory, and none has ended since
  packs        \* packs started

pvars == <<config, files, manifest, todo, saving, over, packs>>

------------------------------------------------------------------------------
(* Piece ids (Manifest). *)

LayerPiece(l)     == <<"layer", l>>
CorePiece(l)      == <<"core", l>>
ExpertPiece(l, e) == <<"expert", l, e>>

Experts(c) == 0 .. c.experts - 1

\* A layer is split when the registry knows its type and calls it a MoE layer.
Split(c, l) == c.type \in Supported /\ SelectiveMoe(c) /\ LayerKey(c, l) = <<"moe">>

LayerPieces(c, l) ==
  IF Split(c, l)
    THEN <<CorePiece(l)>> \o [e \in 1 .. c.experts |-> ExpertPiece(l, e - 1)]
    ELSE <<LayerPiece(l)>>

\* The pieces of the first l layers, behind the embedding, for each l.
UpTo(c) ==
  LET upTo[l \in 0 .. c.n] ==
        IF l = 0 THEN <<<<"embed">>>> ELSE upTo[l - 1] \o LayerPieces(c, l - 1) IN
  upTo

\* The pieces in the order pack() writes them.
Pieces(c) ==
  UpTo(c)[c.n] \o (IF c.type = "gemma4_assistant" THEN <<<<"masked_embed">>>> ELSE <<>>)
               \o <<<<"norm_head">>>>

Ids(s) == {s[i] : i \in DOMAIN s}

------------------------------------------------------------------------------
PackerInit ==
  /\ config \in Configs
  /\ files = [p \in {} |-> "part"] /\ manifest = {}
  /\ todo = <<>> /\ saving = "no" /\ over = FALSE /\ packs = 0

\* pack(): nothing asks whether the directory is packed already, and an old
\* manifest stays until the new one is written.
StartPack ==
  /\ todo = <<>> /\ saving = "no" /\ packs < MaxPacks
  /\ packs' = packs + 1
  /\ todo' = Pieces(config)
  /\ over' = (over \/ manifest # {})
  /\ UNCHANGED <<config, files, manifest, saving>>

\* One save_safetensors begins: the file is truncated.
BeginPiece ==
  LET p == Head(todo) IN
  /\ todo # <<>>
  /\ p \in DOMAIN files => files[p] = "whole"
  /\ files' = [q \in DOMAIN files \cup {p} |-> IF q = p THEN "part" ELSE files[q]]
  /\ UNCHANGED <<config, manifest, todo, saving, over, packs>>

MutantEndPiece ==
  LET p == Head(todo) IN
  /\ todo # <<>> /\ p \in DOMAIN files /\ files[p] = "part"
  /\ files' = [files EXCEPT ![p] = "whole"]
  /\ todo' = Tail(todo)
  /\ saving' = "due"
  /\ UNCHANGED <<config, manifest, over, packs>>

\* It ends.
EndPiece ==
  LET p == Head(todo) IN
  /\ todo # <<>> /\ p \in DOMAIN files /\ files[p] = "part"
  /\ files' = [files EXCEPT ![p] = "whole"]
  /\ todo' = Tail(todo)
  /\ saving' = IF todo' = <<>> THEN "due" ELSE "no"
  /\ UNCHANGED <<config, manifest, over, packs>>

\* Manifest.save: write_text() truncates the file, whatever it held.
BeginManifest ==
  /\ saving = "due"
  /\ saving' = "part" /\ manifest' = {}
  /\ UNCHANGED <<config, files, todo, over, packs>>

EndManifest ==
  /\ saving = "part"
  /\ saving' = "no" /\ manifest' = Ids(Pieces(config)) /\ over' = FALSE
  /\ UNCHANGED <<config, files, todo, packs>>

\* The process is killed; what it wrote stays.
PackKilled ==
  /\ todo # <<>> \/ saving # "no"
  /\ todo' = <<>> /\ saving' = "no"
  /\ UNCHANGED <<config, files, manifest, over, packs>>

Pack ==
  \/ StartPack \/ BeginPiece \/ EndPiece
  \/ BeginManifest \/ EndManifest \/ PackKilled

\* has_piece()
HasPiece(p) == p \in manifest

Whole(p) == HasPiece(p) /\ p \in DOMAIN files /\ files[p] = "whole"

------------------------------------------------------------------------------
\* A directory whose manifest can be read holds a whole file for every piece it
\* lists, however often packing was killed before, in the manifest too, unless a
\* pack was started over it and has not ended (packer.py:288-294, where the manifest
\* is saved last; a torn one is what ModelRegistry.is_packed and Manifest.load differ
\* on).
PackedWhole ==
  manifest # {} /\ ~over => \A p \in manifest : Whole(p)
=============================================================================
