------------------------------- MODULE Transform -------------------------------
(* The transform documents of rust/crates/core/src/transform.rs: a caller     *)
(* names the inputs of a Nix build one by one, makes the document, and the    *)
(* document is known by the hash of its canonical bytes.                      *)
(*                                                                            *)
(* Texts and hashes are sequences of bytes here, because the property is      *)
(* about where one field ends and the next begins.  A length is one digit of  *)
(* base LengthBase for the four bytes of a u32; hashing is injective, so that *)
(* a document's hash is its bytes.                                            *)
EXTENDS Integers, SequencesExt

CONSTANTS
  Hash,        \* hashes of blobs
  HashLength,  \* their bytes (32 in the code)
  NameText,    \* what a caller may offer as the name of an input
  Attribute,   \* what a caller may offer as the attribute to build
  LengthBase   \* lengths are encoded modulo this (2^32 in the code)

ASSUME TransformAssumption ==
  /\ HashLength \in Nat /\ Hash \subseteq [1 .. HashLength -> 0 .. 255]
  /\ NameText \cup Attribute \subseteq Seq(0 .. 255)
  /\ LengthBase \in Nat \ {0}

VARIABLES
  inputs,      \* the caller's BTreeMap
  error,       \* the error of the last call, if any
  documents    \* the document that was made, if any

transformVars == <<inputs, error, documents>>

TRANSFORM_HEADER == "spirit2-transform"   \* one byte here
FORMAT_VERSION == 1
NIX_EXECUTOR_TAG == 1
ASSET_MANIFEST_OUTPUT_TAG == 1

Lower == 97 .. 122
Digit == 48 .. 57
Dash == {45, 95}
Space == {9, 10, 11, 12, 13, 32}   \* what `trim' removes, of these bytes

IsInputName(text) ==
  /\ text # <<>> /\ text[1] \in Lower
  /\ \A i \in DOMAIN text : text[i] \in Lower \cup Digit \cup Dash

IsAttribute(text) ==
  /\ \E i \in DOMAIN text : text[i] \notin Space
  /\ 0 \notin ToSet(text)

TransformInit == inputs = <<>> /\ error = "none" /\ documents = {}

\* InputName::new, then the insertion into the map: a name given again takes
\* its new hash.
NameInput(text, hash) ==
  /\ documents = {}
  /\ IF IsInputName(text)
     THEN /\ inputs' = [n \in DOMAIN inputs \cup {text} |->
                          IF n = text THEN hash ELSE inputs[n]]
          /\ error' = "none"
     ELSE error' = "invalid input name" /\ UNCHANGED inputs
  /\ UNCHANGED documents

Nix(flake, attribute) ==
  /\ documents = {}
  /\ IF IsAttribute(attribute)
     THEN /\ documents' = {[flake_source |-> flake, attribute |-> attribute,
                            inputs |-> inputs]}
          /\ error' = "none"
     ELSE error' = "invalid attribute" /\ UNCHANGED documents
  /\ UNCHANGED inputs

TransformNext ==
  \/ \E text \in NameText, hash \in Hash : NameInput(text, hash)
  \/ \E flake \in Hash, attribute \in Attribute : Nix(flake, attribute)

TransformSpec == TransformInit /\ [][TransformNext]_transformVars

-----------------------------------------------------------------------------
(* canonical_bytes *)

Length(n) == <<n % LengthBase>>

\* Faulty variant: a text is written without its length.
BareText(text) == text

WriteText(text) == Length(Len(text)) \o text

\* The order of names: byte by byte, a prefix first.
Before(a, b) ==
  \E i \in 1 .. Len(b) :
    /\ i <= Len(a) + 1 /\ \A j \in 1 .. i - 1 : a[j] = b[j]
    /\ i = Len(a) + 1 \/ a[i] < b[i]

\* A BTreeMap is iterated in that order.
InOrder(names) ==
  [i \in 1 .. Cardinality(names) |->
     CHOOSE n \in names : Cardinality({m \in names : Before(m, n)}) = i - 1]

Entry(document, name) == WriteText(name) \o document.inputs[name]

CanonicalBytes(document) ==
  LET names == InOrder(DOMAIN document.inputs)
  IN  <<TRANSFORM_HEADER, FORMAT_VERSION, NIX_EXECUTOR_TAG>>
      \o document.flake_source
      \o WriteText(document.attribute)
      \o Length(Len(names))
      \o FlattenSeq([i \in 1 .. Len(names) |-> Entry(document, names[i])])
      \o <<ASSET_MANIFEST_OUTPUT_TAG>>

-----------------------------------------------------------------------------
(* Properties *)

Document ==
  [flake_source : Hash, attribute : {a \in Attribute : IsAttribute(a)},
   inputs : UNION {[names -> Hash] :
                     names \in SUBSET {n \in NameText : IsInputName(n)}}]

\* Its lengths fit into their fields.
Fits(document) ==
  LET names == DOMAIN document.inputs
  IN  /\ IsFiniteSet(names) /\ Cardinality(names) < LengthBase
      /\ \A text \in names \cup {document.attribute} : Len(text) < LengthBase

\* Two documents with the same hash are the same: no attribute, name or hash
\* runs over into the field that follows it, whatever bytes it has, as long as
\* lengths fit into their field (transform.rs:123).
HashIdentifiesDocument ==
  \A document \in documents, other \in Document :
    Fits(document) /\ Fits(other) /\ CanonicalBytes(other) = CanonicalBytes(document) =>
      other = document
=============================================================================
