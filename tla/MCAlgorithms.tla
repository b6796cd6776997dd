----------------------------- MODULE MCAlgorithms -----------------------------
(* The pure algorithms, each over its inputs. *)
EXTENDS ElfObject, BtfDedup, BtfDump, CoreReloc, BtfData, Netlink, ProgTypes, ProgInfo, Config, PinnedMaps

Init ==
  /\ \/ in \in ArgsInputs
     \/ in \in StringInputs
     \/ in \in LayoutInputs
     \/ in \in CoreInputs
     \/ in \in DeepInputs
     \/ in \in ResolveInputs
     \/ in \in NetSetInputs
     \/ in \in ElfInputs
     \/ in \in DedupInputs
     \/ in \in GraphInputs
     \/ in \in DeclInputs
     \/ in \in NameInputs
     \/ in \in BitsInputs
     \/ in \in ParseInputs
     \/ in \in KvInputs
     \/ in \in SecInputs
     \/ in \in ExtInputs
     \/ in \in FromIdInputs
     \/ in \in NetDumpInputs
     \/ in \in TcInputs
     \/ in \in ErrorTextInputs
     \/ in \in NameSecInputs
     \/ in \in LoadObjInputs
     \/ in \in FindMapInputs
     \/ in \in LinearInputs
     \/ in \in LineInputs
     \/ in \in CpuInputs
     \/ in \in MacInputs
     \/ in \in RingInputs
     \/ in \in ElfFileInputs
     \/ in \in PlaceInputs
     \/ in \in ObjectInputs
     \/ in \in PinInputs
  /\ out = <<>>
  /\ pc = "start"

Next ==
  \/ ElfNext \/ DedupNext \/ StringNext \/ GraphNext \/ LayoutNext \/ DeclNext \/ NameNext
  \/ CoreNext \/ DeepNext \/ BitsNext \/ DataNext \/ NetNext \/ ProgNext \/ InfoNext \/ ConfigNext \/ FileNext \/ PinNext

Spec == Init /\ [][Next]_vars

-----------------------------------------------------------------------------
(* What the algorithms answer is what their reference definitions say, over *)
(* every input; the parts are stated beside each algorithm.                 *)

\* ElfObject and ProgTypes: in every layout of the file a loaded program's own
\* map loads, calls and function records are those the source meant, and those
\* of the functions it calls when .text stands before it (after it, they are
\* copied before they are relocated); a map's definition does not depend on
\* the order of its fields, defects are refused, and each program is loaded
\* with the type its section asks for.
ProgramsLoadRight ==
  /\ LoadsRight /\ TextLoadsRight /\ CallsRight /\ InfoRight /\ AcceptsWellFormed /\ FieldOrder
  /\ TypeGuessed /\ LoadsAsAsked /\ ProgramsVisited /\ MapFound

\* BtfDedup: deduplication keeps the meaning of every type and string and
\* leaves no two alike.
DedupRight == MeaningKept /\ NoDuplicates /\ StringsKept

\* BtfDump: C accepts the text in this order, reads every declaration back as
\* the type it was printed for, and every layout but that of a packed struct
\* with bit fields across units that is not recognised; two types share a
\* name only when one was made up that is another's own, or was cut.
DumpRight == DeclaredBeforeUse /\ LayoutKept /\ ParsesBack /\ NamesDistinct

\* CoreReloc: a relocated access reads the field of that name at the offset all
\* of up to six candidate types agree on, with the size and sign the first of
\* them gives it, bit fields exactly, or the relocation fails.
FieldsRelocated == FieldFound /\ DeepFound /\ BitfieldRead

\* BtfData: BTF is read from memory, from an object file and from the kernel
\* as it was written or refused, sizes are exact or refused, and what is given
\* to an older kernel is valid there.
BtfReadRight ==
  /\ TypesFound /\ SizeExact /\ ResolvesAlike /\ KvOfMap /\ SectionSorted /\ ExtRead /\ WholeOrNothing
  /\ ElfBtfRead /\ KernelBtfFound /\ SanitizedValid /\ SectionsAgree

\* Netlink, ProgInfo and Config: what the kernel answers is read as it was
\* meant: the attached program, the result of an attach, dumps, error texts,
\* arrays of program info, line records, CPU lists and ring offsets, from old
\* kernels and new ones.  A link whose message does not fit libbpf's buffer
\* is passed over, and a dump whose end is lost is waited for.
KernelAnswersRead ==
  /\ LinkIdRight /\ AttachReported /\ TcDumped /\ ErrorTextRight
  /\ InfoPacked /\ InfoMoves /\ LinesFound /\ CpusCounted /\ RingInMapping

\* Config and PinnedMaps: the tools take the options and addresses they were
\* given, and two loaders of one object share the maps they pin, but for one
\* whose kernel program keeps a map of its own because replacing it failed.
ToolsAsAsked == OptionsTaken /\ MacParsed /\ PinnedShared
=============================================================================
