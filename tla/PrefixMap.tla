----------------------------- MODULE PrefixMap ------------------------------
(***************************************************************************)
(* common/collection/prefix_map.h: the value of the longest prefix of a    *)
(* string.  A map from the strings' digests and a map that counts the      *)
(* strings of each length, which Find goes through from the longest on.    *)
(* Different strings have different digests here.                          *)
(***************************************************************************)
EXTENDS Integers, Sequences, FiniteSetsExt

CONSTANTS
    Prefixes,     \* the strings that are inserted and removed
    Queries       \* the strings that are looked up

VARIABLES
    m_map,          \* string -> inclusive; the value is the string's
    m_length_map    \* length -> how many strings of m_map have it

vars == <<m_map, m_length_map>>

S == INSTANCE SequencesExt

\* The map without key, and with key bound to value.
Without(map, key) == [k \in DOMAIN map \ {key} |-> map[k]]
With(map, key, value) ==
    [k \in DOMAIN map \cup {key} |-> IF k = key THEN value ELSE map[k]]

CountOf(length) ==
    IF length \in DOMAIN m_length_map THEN m_length_map[length] ELSE 0

-----------------------------------------------------------------------------
\* Variant: a string that is inserted again is counted again.
InternalInsertCounts(str, inclusive) ==
    /\ m_map' = With(m_map, str, inclusive)
    /\ m_length_map' = With(m_length_map, Len(str), CountOf(Len(str)) + 1)

\* InsertInclusive and InsertExclusive: the new string covers the old.
InternalInsert(str, inclusive) ==
    /\ m_map' = With(m_map, str, inclusive)
    /\ m_length_map' = IF str \in DOMAIN m_map
                       THEN m_length_map
                       ELSE With(m_length_map, Len(str), CountOf(Len(str)) + 1)

Remove(str) ==
    /\ str \in DOMAIN m_map
    /\ m_map' = Without(m_map, str)
    /\ m_length_map' = IF CountOf(Len(str)) = 1
                       THEN Without(m_length_map, Len(str))
                       ELSE With(m_length_map, Len(str), CountOf(Len(str)) - 1)

Clear ==
    /\ m_map # <<>>
    /\ m_map' = <<>>
    /\ m_length_map' = <<>>

Init == m_map = <<>> /\ m_length_map = <<>>

Next ==
    \/ \E str \in Prefixes : \/ \E inclusive \in BOOLEAN :
                                  InternalInsert(str, inclusive)
                             \/ Remove(str)
    \/ Clear

Spec == Init /\ [][Next]_vars

-----------------------------------------------------------------------------
(* Looking a string up.                                                    *)

\* The lengths from lower_bound on, which are tried from the longest.
Lengths(str) == {n \in DOMAIN m_length_map : n <= Len(str)}

\* Whether the prefix of length n is taken for str.
Matches(str, n) ==
    LET prefix == SubSeq(str, 1, n)
    IN  prefix \in DOMAIN m_map /\ (n = Len(str) => m_map[prefix])

FindMatchLength(str) ==
    LET matched == {n \in Lengths(str) : Matches(str, n)}
    IN  IF matched = {} THEN -1 ELSE Max(matched)

-----------------------------------------------------------------------------
(* Properties.                                                             *)

\* After any insertions, coverings and removals the lengths that Find tries
\* are those of the strings in the map, each counted once: no string is
\* forgotten when another of its length goes, and the assertions of Remove and
\* Empty hold.
LengthsAreCounted ==
    m_length_map =
      [n \in {Len(s) : s \in DOMAIN m_map} |->
         Cardinality({s \in DOMAIN m_map : Len(s) = n})]

\* Find returns the longest string of the map that is a proper prefix of the
\* one looked up, or that string itself where it is inclusive.
FindsTheLongest ==
    \A str \in Queries :
      LET prefixes == {s \in DOMAIN m_map :
                         S!IsPrefix(s, str) /\ (s = str => m_map[s])}
      IN  FindMatchLength(str) = Max({-1} \cup {Len(s) : s \in prefixes})
=============================================================================
