---------------------------- MODULE EditorConfig ----------------------------
(* The configuration of an editor state: a tree of extensions flattened by    *)
(* precedence, and the slots of fields and facets, which are computed on      *)
(* demand and kept from state to state (Facet, StateField, Configuration).    *)
EXTENDS Integers, Sequences, SequencesExt, FiniteSets, TLC

CONSTANTS Fields, Providers, Facets, InitFacet,   \* ids; InitFacet overrides how fields start
          FacetOf, KindOf, DependsOn,   \* of a provider: facet, "Static", "Single" or "Multi", dependencies
          StaticOf,                     \* value of a static provider
          SlotsRead(_),                     \* slots a field's functions look at
          FirstValue, UpdateF(_, _, _, _), Getter(_, _),   \* the functions of fields and providers
          Provides, Enables,            \* extensions a field provides, a facet brings along
          NodeOf,                       \* of a name: the extension it stands for
          Base, Compartments, Contents, Appended,   \* extensions to start with, to put in
          SecondEffects,                \* effects of a transaction besides its first
          Docs, Sels, MaxTransactions   \* versions of the document and of the selection
VARIABLES docNow, selNow,
          base, content,       \* the configuration's base and its compartments
          atoms,               \* its fields and providers, in order
          values,              \* of the dynamic slots
          transactions, lastError,
          touched              \* compartments the last transaction set
configVars == <<docNow, selNow, base, content, atoms, values, transactions, lastError, touched>>

NoValue == <<>>
Override == 0   Default == 2   Fallback == 3
----------------------------------------------------------------------------
(* flatten: an extension met again moves to the later of its precedences.     *)
RECURSIVE Visit(_, _, _), VisitAll(_, _, _)
VisitAll(acc, exts, prec) == IF exts = <<>> THEN acc ELSE VisitAll(Visit(acc, Head(exts), prec), Tail(exts), prec)
Unplaced(acc, ext) ==
  [acc EXCEPT !.result = [p \in DOMAIN @ |-> SelectSeq(@[p], LAMBDA x : x # ext)]]
Forgotten(acc, node) ==
  IF node.is = "compartment" THEN [acc EXCEPT !.content = [c \in DOMAIN @ \ {node.compartment} |-> @[c]]] ELSE acc
Place(acc, ext, prec) == [acc EXCEPT !.result[prec] = Append(@, ext)]
VisitNode(acc, ext, prec) ==
  LET node == NodeOf[ext]
  IN CASE node.is = "list" -> VisitAll(acc, node.items, prec)
       [] node.is = "prec" -> Visit(acc, node.inner, node.prec)
       [] node.is = "field" -> VisitAll(Place(acc, ext, prec), Provides[ext], prec)
       [] node.is = "provider" -> VisitAll(Place(acc, ext, prec), Enables[FacetOf[ext]], prec)
       [] node.is = "compartment" ->
            LET c == node.compartment
                inside == IF c \in DOMAIN acc.chosen THEN acc.chosen[c] ELSE node.inner
            IN IF c \in DOMAIN acc.content THEN [acc EXCEPT !.duplicate = TRUE]
               ELSE Visit([acc EXCEPT !.content = (c :> inside) @@ @], inside, prec)
Visit(acc, ext, prec) ==
  LET known == ext \in DOMAIN acc.seen
      moved == IF known THEN Forgotten(Unplaced(acc, ext), NodeOf[ext]) ELSE acc
  IN IF acc.duplicate \/ (known /\ acc.seen[ext] >= prec) THEN acc
     ELSE VisitNode([moved EXCEPT !.seen = (ext :> prec) @@ @], ext, prec)
AsConfiguration(acc) ==
  [atoms |-> acc.result[0] \o acc.result[1] \o acc.result[2] \o acc.result[3],
   content |-> acc.content, duplicate |-> acc.duplicate]
Flatten(exts, chosen) ==
  AsConfiguration(VisitAll([result |-> [p \in Override .. Fallback |-> <<>>], seen |-> <<>>, content |-> <<>>,
                            chosen |-> chosen, duplicate |-> FALSE], exts, Default))
----------------------------------------------------------------------------
(* Which facets and fields a configuration has, and which of them have slots. *)
ProvidersIn(list, facet) == SelectSeq(list, LAMBDA a : a \in Providers /\ FacetOf[a] = facet)
IsDynamic(p) == KindOf[p] # "Static"
Present(list, x) == x \in Range(list) \/ (x \in Facets /\ ProvidersIn(list, x) # <<>>)
SlotsOf(list) ==
  (Range(list) \cap Fields) \cup {p \in Range(list) \cap Providers : IsDynamic(p)}
  \cup {f \in Facets : \E p \in Range(ProvidersIn(list, f)) : IsDynamic(p)}

(* combine: here the inputs of a facet, in their order.                       *)
RECURSIVE Inputs(_, _, _)
Inputs(list, vals, i) ==
  IF i > Len(list) THEN <<>>
  ELSE LET p == list[i]
       IN (IF ~IsDynamic(p) THEN <<StaticOf[p]>> ELSE IF KindOf[p] = "Multi" THEN vals[p] ELSE <<vals[p]>>)
          \o Inputs(list, vals, i + 1)
Combined(list, vals, facet) == Inputs(ProvidersIn(list, facet), vals, 1)
ValueOf(list, vals, x) ==
  IF x \in DOMAIN vals THEN vals[x] ELSE IF x \in Facets THEN Combined(list, vals, x) ELSE NoValue

(* ensureAddr: a slot is computed when it is first needed for this state; one *)
(* that is met while it is being computed is a cycle.  A work w is the state  *)
(* being computed, with the state and the transaction it comes from.          *)
Computed(w, x) == x \in DOMAIN w.status /\ w.status[x] \in {"Same", "Changed"}
SawChange(w, set) == \E x \in set : x \in DOMAIN w.status /\ w.status[x] = "Changed"
StoredIn(w, x, value) == [w EXCEPT !.values[x] = value, !.status[x] = "Changed"]
Unchanged(w, x) == [w EXCEPT !.status[x] = "Same"]
SeenBy(w) == [doc |-> w.doc, sel |-> w.sel, at |-> [x \in Fields \cup Facets |-> ValueOf(w.atoms, w.values, x)]]
RECURSIVE Ensure(_, _)
RECURSIVE EnsureAll(_, _)
EnsureAll(w, set) ==
  IF set = {} THEN w ELSE LET x == CHOOSE x \in set : TRUE IN EnsureAll(Ensure(w, x), set \ {x})
Anew(w) == w.first \/ w.reconfigured
Old(w, x) == ValueOf(w.oldAtoms, w.oldValues, x)
KnownBefore(w, x) == w.first = FALSE /\ Present(w.oldAtoms, x)

CreateField(w, x) ==
  LET own == SelectSeq(ProvidersIn(w.atoms, InitFacet), LAMBDA p : StaticOf[p].field = x)
  IN IF own = <<>> THEN FirstValue[x] ELSE StaticOf[own[1]].value
FieldSlot(w, x) ==
  IF Anew(w) /\ ~KnownBefore(w, x) THEN StoredIn(w, x, CreateField(w, x))
  ELSE LET read == EnsureAll(w, SlotsRead(x))
           value == UpdateF(x, Old(w, x), w.docChanged, SeenBy(read))
       IN IF read.cyclic THEN read
          ELSE IF w.reconfigured \/ value # Old(w, x) THEN StoredIn(read, x, value) ELSE Unchanged(read, x)

(* A provider is computed again when something it depends on changed; the     *)
(* selection is mapped when the document changes.                             *)
DependencyChanged(w, x) ==
  \/ "doc" \in DependsOn[x] /\ w.docChanged
  \/ "selection" \in DependsOn[x] /\ (w.docChanged \/ w.selected)
  \/ SawChange(w, DependsOn[x] \cap (Fields \cup Facets))
ProviderSlot(w, x) ==
  LET read == EnsureAll(w, DependsOn[x] \cap (Fields \cup Facets))
      value == Getter(x, SeenBy(read))
  IN IF read.cyclic THEN read
     ELSE IF Anew(w) THEN StoredIn(read, x, value)
     ELSE IF ~DependencyChanged(read, x) \/ value = Old(w, x) THEN Unchanged(read, x)
     ELSE StoredIn(read, x, value)
FacetSlot(w, x) ==
  LET inputs == {p \in Range(ProvidersIn(w.atoms, x)) : IsDynamic(p)}
      read == EnsureAll(w, inputs)
      value == Combined(w.atoms, read.values, x)
  IN IF read.cyclic THEN read
     ELSE IF KnownBefore(w, x) /\ (~SawChange(read, inputs) \/ value = Old(w, x)) THEN Unchanged(read, x)
     ELSE StoredIn(read, x, value)
Ensure(w, x) ==
  LET begun == [w EXCEPT !.status[x] = "Computing"]
  IN IF w.cyclic \/ x \notin DOMAIN w.status \/ Computed(w, x) THEN w
     ELSE IF w.status[x] = "Computing" THEN [w EXCEPT !.cyclic = TRUE]
     ELSE IF x \in Fields THEN FieldSlot(begun, x)
     ELSE IF x \in Providers THEN ProviderSlot(begun, x) ELSE FacetSlot(begun, x)

(* new EditorState: slots the old state shares start with its values, whether *)
(* a facet's was static there or not.                                         *)
CopiedValue(old, vals, x) == IF Present(old, x) THEN ValueOf(old, vals, x) ELSE NoValue
StateOf(w) ==
  EnsureAll([w EXCEPT !.values = [x \in SlotsOf(w.atoms) |-> CopiedValue(w.oldAtoms, w.oldValues, x)]],
            SlotsOf(w.atoms))
NewWork(list, d, s, old, vals, tr) ==
  [atoms |-> list, doc |-> d, sel |-> s, oldAtoms |-> old, oldValues |-> vals, values |-> <<>>,
   status |-> [x \in SlotsOf(list) |-> "Uninitialized"], cyclic |-> FALSE,
   first |-> FALSE, reconfigured |-> tr.reconfigured, docChanged |-> tr.docChanged, selected |-> tr.selected]
----------------------------------------------------------------------------
(* A transaction, which may change the document, set the selection and carry  *)
(* effects.  The map of compartments is copied by the first compartment       *)
(* effect only when no other effect came first: else it is the old state's.   *)
Effects ==
  [is : {"compartment"}, compartment : Compartments, content : Contents]
  \cup [is : {"reconfigure"}, base : {<<Base>>}] \cup [is : {"append"}, ext : Appended]
WithEffect(c, e) ==
  IF e.is = "compartment" THEN [c EXCEPT !.content = (e.compartment :> e.content) @@ @]
  ELSE IF e.is = "reconfigure" THEN [c EXCEPT !.base = e.base] ELSE [c EXCEPT !.base = Append(@, e.ext)]
RECURSIVE AfterEffects(_, _)
AfterEffects(c, effects) == IF effects = <<>> THEN c ELSE AfterEffects(WithEffect(c, Head(effects)), Tail(effects))
SharesOld(effects) == effects # <<>> /\ effects[1].is # "compartment"
Transact(d, s, tr, effects) ==
  \E wanted \in {AfterEffects([base |-> base, content |-> content], effects)} :
  \E flat \in {Flatten(wanted.base, wanted.content)} :
  \E list \in {IF effects = <<>> THEN atoms ELSE flat.atoms} :
  \E w \in {StateOf(NewWork(list, d, s, atoms, values, tr))} :
  \E fails \in {(effects # <<>> /\ flat.duplicate) \/ w.cyclic} :
     /\ transactions < MaxTransactions /\ transactions' = transactions + 1
     /\ lastError' = (IF ~fails THEN "none" ELSE IF effects # <<>> /\ flat.duplicate THEN "duplicate" ELSE "cyclic")
     /\ touched' = {e.compartment : e \in {f \in Range(effects) : f.is = "compartment"}}
     /\ IF fails THEN /\ UNCHANGED <<docNow, selNow, base, atoms, values>>
                      /\ content' = IF SharesOld(effects) THEN wanted.content ELSE content
        ELSE /\ docNow' = d /\ selNow' = s /\ atoms' = list /\ values' = w.values
             /\ IF effects = <<>> THEN UNCHANGED <<base, content>>
                ELSE base' = wanted.base /\ content' = flat.content
ChangeDoc == \E d \in Docs \ {docNow}, s \in Sels : Transact(d, s, [docChanged |-> TRUE, selected |-> FALSE, reconfigured |-> FALSE], <<>>)
SetSelection == \E s \in Sels : Transact(docNow, s, [docChanged |-> FALSE, selected |-> TRUE, reconfigured |-> FALSE], <<>>)
Reconfigure ==
  \E e \in Effects : \E effects \in {<<e>>} \cup {<<e, f>> : f \in SecondEffects} :
    Transact(docNow, selNow, [docChanged |-> FALSE, selected |-> FALSE, reconfigured |-> TRUE], effects)
ConfigInit ==
  \E flat \in {Flatten(<<Base>>, <<>>)},
     new \in {[docChanged |-> FALSE, selected |-> FALSE, reconfigured |-> FALSE]} :
     /\ docNow = (CHOOSE d \in Docs : TRUE) /\ selNow = (CHOOSE s \in Sels : TRUE)
     /\ base = <<Base>> /\ content = flat.content /\ atoms = flat.atoms
     /\ values = StateOf([NewWork(flat.atoms, docNow, selNow, <<>>, <<>>, new) EXCEPT !.first = TRUE]).values
     /\ transactions = 0 /\ lastError = "none" /\ touched = {}
ConfigNext == ChangeDoc \/ SetSelection \/ Reconfigure
----------------------------------------------------------------------------
(* Between transactions no slot is stale: every provider and facet has the    *)
(* value its function would give for this document, selection and fields,     *)
(* although it was computed only when a dependency changed or was copied over *)
(* from a configuration with other providers.                                 *)
NeverStale ==
  LET at == [x \in Fields \cup Facets |-> ValueOf(atoms, values, x)]
  IN \A x \in SlotsOf(atoms) :
       /\ x \in Providers => values[x] = Getter(x, [doc |-> docNow, sel |-> selNow, at |-> at])
       /\ x \in Facets => values[x] = Combined(atoms, values, x)

(* A field that a reconfiguration keeps goes on from its value; it takes      *)
(* every transaction once, however often it is looked at while it is applied. *)
FieldsCarriedOver ==
  [][transactions' # transactions => \A x \in Fields :
       Present(atoms, x) /\ Present(atoms', x) =>
         values'[x] = IF lastError' # "none" THEN values[x]
                      ELSE UpdateF(x, values[x], docNow' # docNow,
                             [doc |-> docNow', sel |-> selNow',
                              at |-> [y \in Fields \cup Facets |-> ValueOf(atoms', values', y)]])]_configVars

(* What a compartment holds is kept by reconfigurations that do not set it,   *)
(* those of the base and the appended extensions included.                    *)
CompartmentsKept ==
  [][content' # content => \A c \in DOMAIN content \cap DOMAIN content' : content'[c] # content[c] => c \in touched']_configVars

(* An extension that is reached in several ways, at several precedences, is   *)
(* in the configuration once.                                                 *)
OnceEach == \A i, j \in DOMAIN atoms : atoms[i] = atoms[j] => i = j
=============================================================================
