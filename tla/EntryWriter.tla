---------------------------- MODULE EntryWriter ----------------------------
(***************************************************************************)
(* How a content edit reaches the bytes of its file (core/src/             *)
(* entry-writer.ts): the difference between the inspected values and the   *)
(* draft is spliced into the parsed frontmatter, which may have moved on   *)
(* since, and an edited body is put back between the file's own white      *)
(* space.  Values are leaves or maps; a map is a function from its keys.   *)
(***************************************************************************)
EXTENDS Naturals, Sequences, FiniteSets, SequencesExt

Leaf(v) == [leaf |-> TRUE, is |-> [value |-> v]]
Map(f) == [leaf |-> FALSE, is |-> f]
NoKeys == Map(<<>>)

\* A cleared widget's value, what a document holds under a key it lacks, and
\* the root of a document without any content, which is no map.
Undefined == Leaf("undefined")

\* A document that may have been spliced: `touched` is applyDraft's answer,
\* `thrown` the yaml library's refusal to step into something that is no map.
Doc(value, touched, thrown) == [value |-> value, touched |-> touched, thrown |-> thrown]

RECURSIVE ValueAt(_, _), setIn(_, _, _), deleteIn(_, _), applyDraft(_, _, _, _, _, _)

\* doc.getIn
ValueAt(value, path) ==
    IF path = <<>> THEN value
    ELSE IF value.leaf \/ Head(path) \notin DOMAIN value.is THEN Undefined
    ELSE ValueAt(value.is[Head(path)], Tail(path))

WithKey(map, key, value) ==
    Map([k \in DOMAIN map.is \cup {key} |-> IF k = key THEN value ELSE map.is[k]])

\* Is there a leaf on the way, where the library throws?
Blocked(value, path) ==
    \E n \in 0 .. (Len(path) - 1) :
        LET at == ValueAt(value, SubSeq(path, 1, n)) IN at.leaf /\ at # Undefined

\* doc.setIn, of an unblocked path: maps that are missing on the way are made.
setIn(value, path, new) ==
    IF path = <<>> THEN new
    ELSE LET map == IF value.leaf THEN NoKeys ELSE value
             old == IF Head(path) \in DOMAIN map.is THEN map.is[Head(path)] ELSE Undefined
         IN  WithKey(map, Head(path), setIn(old, Tail(path), new))

\* doc.deleteIn, of a path whose parent is a map.
deleteIn(value, path) ==
    IF Len(path) = 1
    THEN Map([k \in DOMAIN value.is \ {Head(path)} |-> value.is[k]])
    ELSE WithKey(value, Head(path), deleteIn(value.is[Head(path)], Tail(path)))

\* deleteIn throws where the parent is no map of the document: at the root of
\* an empty document too, although setIn makes that root a map.
Deleted(doc, path) ==
    IF ValueAt(doc.value, Front(path)).leaf THEN [doc EXCEPT !.thrown = TRUE]
    ELSE Doc(deleteIn(doc.value, path), TRUE, doc.thrown)

\* setNode: a node that holds the value already keeps its bytes.
setNode(doc, path, value) ==
    IF path # <<>> /\ value = Undefined
    THEN [Deleted(doc, path) EXCEPT
            !.touched = doc.touched \/ ValueAt(doc.value, path) # Undefined]
    ELSE IF path # <<>> /\ ValueAt(doc.value, path) = value THEN doc
    ELSE IF Blocked(doc.value, path) THEN [doc EXCEPT !.thrown = TRUE]
    ELSE Doc(setIn(doc.value, path, value), TRUE, doc.thrown)

\* The first guard of applyDraft.
Protects(path, protected) == path \in protected

\* Mutant: a whole map is written when anything in it differs.
RecursesNever(baseline, draft) == FALSE

\* Maps are compared key by key; everything else is replaced whole.
Recurses(baseline, draft) == ~baseline.leaf /\ ~draft.leaf

\* The keys in the order an object holds them, which is either way round.
InTurn(keys, reversed) == IF reversed THEN Reverse(SetToSeq(keys)) ELSE SetToSeq(keys)

\* applyDraft: removed keys go first, then the draft's keys in turn.  Keys of a
\* map are independent of each other; in an empty document the first key that
\* is set makes the map from which the next can be deleted.
applyDraft(doc, baseline, draft, path, protected, reversed) ==
    IF doc.thrown \/ Protects(path, protected) \/ baseline = draft THEN doc
    ELSE IF ~Recurses(baseline, draft) THEN setNode(doc, path, draft)
    ELSE LET gone == DOMAIN baseline.is \ DOMAIN draft.is
             pruned == FoldLeft(LAMBDA d, k : Deleted(d, Append(path, k)),
                                doc, InTurn(gone, reversed))
         IN  FoldLeft(LAMBDA d, k :
                          applyDraft(d, ValueAt(baseline, <<k>>), draft.is[k],
                                     Append(path, k), protected, reversed),
                      pruned, InTurn(DOMAIN draft.is, reversed))

-----------------------------------------------------------------------------
(* The file: an optional frontmatter block, the ending of its last line,   *)
(* and a body of leading space, text and trailing space.                   *)

\* A body as the characters of "text" and "space"; trim() of it.
IsSpace(c) == c = "space"
TrimStart(body) ==
    LET inked == {i \in DOMAIN body : ~IsSpace(body[i])}
    IN  IF inked = {} THEN <<>>
        ELSE SubSeq(body, CHOOSE i \in inked : \A j \in inked : i <= j, Len(body))
Trim(body) == Reverse(TrimStart(Reverse(TrimStart(body))))

\* anchorBody: the edited body goes back between the file's own spaces.
anchorBody(rawBody, draftBody) ==
    LET lead == SubSeq(rawBody, 1, Len(rawBody) - Len(TrimStart(rawBody)))
        tail == SubSeq(rawBody, Len(Reverse(TrimStart(Reverse(rawBody)))) + 1, Len(rawBody))
    IN  lead \o draftBody \o (IF IsSuffix(tail, draftBody) THEN <<>> ELSE tail)

\* splitEntryFile's parts: `block` tells whether there is a frontmatter, whose
\* `data` is Undefined when it is empty or a comment; `ended` whether its
\* closing line has a line ending.
File(block, data, ended, body) ==
    [block |-> block, data |-> data, ended |-> ended, body |-> body]

\* The separator before the body: the block's own line ending, or a new one
\* when a body follows that had none to follow.
Separated(file, body) == file.ended \/ body # <<>>

\* parseEntryDraft: a file without frontmatter values reads as {}.
Parsed(file) ==
    [data |-> IF file.block /\ file.data # Undefined THEN file.data ELSE NoKeys,
     body |-> Trim(file.body)]

\* parseDocument: the contents of an empty block are null, not a map.
parseDocument(file) == IF file.block THEN file.data ELSE Undefined

\* The answer when the splice could not be made.
Thrown == File(FALSE, Undefined, FALSE, <<>>)

serializeEntry(file, baseline, draft, protected, reversed) ==
    LET doc == applyDraft(Doc(parseDocument(file), FALSE, FALSE),
                          baseline.data, draft.data, <<>>, protected, reversed)
        body == IF draft.body = baseline.body THEN file.body
                ELSE anchorBody(file.body, draft.body)
    IN  IF doc.thrown THEN Thrown
        ELSE IF doc.touched
        THEN File(TRUE, doc.value, ~file.block \/ Separated(file, body), body)
        ELSE IF draft.body = baseline.body THEN file
        ELSE IF file.block THEN File(TRUE, file.data, Separated(file, body), body)
        ELSE File(FALSE, NoKeys, FALSE,
                  IF body = <<>> THEN body ELSE <<"space">> \o body)

=============================================================================
