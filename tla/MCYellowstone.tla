---------------------------- MODULE MCYellowstone ----------------------------
(***************************************************************************)
(* Instances of YellowstoneIndexer for TLC: small chains.  The configured  *)
(* programs are one program b, which stands for the registry factory too;  *)
(* e is an extension.                                                      *)
(***************************************************************************)
EXTENDS YellowstoneIndexer

MCBase == {"b"}
MCExtensions == {"e"}

Plain == [touch |-> {"b"}, ok |-> TRUE, op |-> "none", ext |-> "none"]
Failed == [Plain EXCEPT !.ok = FALSE]
ByExtension == [Plain EXCEPT !.touch = {"e"}]
Registers == [Plain EXCEPT !.op = "register", !.ext = "e"]
Removes == [Plain EXCEPT !.op = "remove", !.ext = "e"]

\* Everything at once: several transactions in a slot, failed ones, empty slots, an
\* extension that is registered, used and removed.
OutageBlocks == [s \in 1 .. MaxSlot |->
    CASE s = 1 -> {<<Plain>>, <<Plain, Registers>>}
      [] s = 2 -> {<< >>, <<Plain, Plain>>, <<Registers, ByExtension>>}
      [] s = 3 -> {<<Failed, Plain>>, <<ByExtension, Removes>>}
      [] OTHER -> {<< >>, <<Plain, ByExtension, Plain>>}]

\* An extension is registered, at the start of a slot or inside it, and used.
ExtensionBlocks == [s \in 1 .. MaxSlot |->
    IF s = 1 THEN {<<Plain>>, <<Plain, Registers>>}
    ELSE {<<Registers, ByExtension>>, <<ByExtension>>, <<ByExtension, Plain>>}]

\* Two transactions of the configured program in every slot, no extension.
PairBlocks == [s \in 1 .. MaxSlot |-> {<<Plain, Plain>>}]

=============================================================================
