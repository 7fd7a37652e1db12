------------------------------ MODULE SqlNames ------------------------------
(***************************************************************************)
(* The names V{version}_{seq}__{desc}.sql of internal/db/apply.go and the  *)
(* three orders on them: of the walk that executes, of the preview, and of *)
(* the numbers the names are made of.                                      *)
(*                                                                         *)
(* A script is [db, version, seq]; db is the position of its directory in  *)
(* the order of names, version a tuple of three numbers.                   *)
(***************************************************************************)
EXTENDS Naturals, Sequences, SequencesExt

Dot == 46
Underscore == 95

\* The codes of the digits of a number, without leading zeros.
Digits[n \in Nat] == IF n < 10 THEN <<48 + n>> ELSE Digits[n \div 10] \o <<48 + (n % 10)>>

Dotted(v) == Digits[v[1]] \o <<Dot>> \o Digits[v[2]] \o <<Dot>> \o Digits[v[3]]

\* A file name from the version on; what comes before and after is the same.
FileName(s) == Dotted(s.version) \o <<Underscore>> \o Digits[s.seq] \o <<Underscore>>

\* Go's order on strings.
StringLess(a, b) ==
    \E k \in 1..Len(b) : /\ \A j \in 1..(k - 1) : j <= Len(a) /\ a[j] = b[j]
                         /\ k > Len(a) \/ a[k] < b[k]

\* filepath.Walk: directories, and the files in each, by name.
WalkLess(s, t) == s.db < t.db \/ (s.db = t.db /\ StringLess(FileName(s), FileName(t)))

\* sort.Slice of ListPending.
PreviewLess(s, t) ==
    IF s.version = t.version THEN StringLess(Digits[s.seq], Digits[t.seq])
    ELSE StringLess(Dotted(s.version), Dotted(t.version))

\* Versions by their numbers, then sequence numbers.
NumberLess(s, t) ==
    \/ \E k \in 1..3 : /\ \A j \in 1..(k - 1) : s.version[j] = t.version[j]
                       /\ s.version[k] < t.version[k]
    \/ s.version = t.version /\ s.seq < t.seq

WalkOrder(S) == SetToSortSeq(S, WalkLess)
Preview(S) == SetToSortSeq(S, PreviewLess)
=============================================================================
