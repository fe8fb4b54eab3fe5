------------------------------ MODULE DepPaths ------------------------------
\* packages/dependency-path: the paths by which a lockfile names packages, the
\* references by which dependents name them, and the directories they live in.
EXTENDS Naturals, FiniteSets, Sequences, SequencesExt, TLC

CONSTANTS Lower,        \* word -> the same in lower case, of the words with capitals
          PatchHashes,  \* the words that begin with patch_hash=
          Versions,     \* the words that are semantic versions
          Rank,         \* word -> its place in the alphabet
          MaxLength,    \* of the name of a directory
          MaxSuffix     \* of the peers in a suffix

\* A path is a sequence of words and of the marks "@", "/", ":", "(" and ")".
\* Lengths count words: a hash is one.
Brackets == {"(", ")"}
CreateShortHash(words) == ToString(words)

\* The place of a mark, from one on; 0 if there is none.
IndexOf(path, mark, from) ==
  LET at == {i \in from .. Len(path) : path[i] = mark}
  IN  IF at = {} THEN 0 ELSE CHOOSE i \in at : \A j \in at : i <= j
Upto(path, i) == SubSeq(path, 1, i)
From(path, i) == SubSeq(path, i, Len(path))

\* As many brackets are opened as closed from a place on.
Balanced(path, i) ==
  LET Number(mark) == Cardinality({j \in i .. Len(path) : path[j] = mark})
  IN  Number("(") = Number(")")

\* Read from the end, the suffix begins after the first word outside of brackets;
\* it may have a hash of the patch in front of the peers.
IndexOfPeersSuffix(path) ==
  LET outside == {i \in 1 .. Len(path) - 1 : path[i] \notin Brackets /\ Balanced(path, i + 1)}
      i == CHOOSE i \in outside : \A j \in outside : j <= i
  IN  IF path = <<>> \/ Last(path) # ")" \/ outside = {} THEN [peers |-> 0, patch |-> 0]
      ELSE IF path[i + 2] \in PatchHashes
           THEN [patch |-> i + 1, peers |-> IndexOf(path, "(", i + 2)]
           ELSE [patch |-> 0, peers |-> i + 1]

RemoveSuffix(path) ==
  LET at == IndexOfPeersSuffix(path)
  IN  CASE at.patch # 0 -> Upto(path, at.patch - 1)
        [] at.patch = 0 /\ at.peers # 0 -> Upto(path, at.peers - 1)
        [] OTHER -> path

ParseDepPath(path) ==
  LET at == IndexOfPeersSuffix(path).peers
  IN  IF at = 0 THEN [id |-> path, peersSuffix |-> <<>>]
      ELSE [id |-> Upto(path, at - 1), peersSuffix |-> From(path, at)]

\* Without the name if the package is not of a registry.
WithoutName(id) == IF IndexOf(id, ":", 1) = 0 THEN id ELSE From(id, IndexOf(id, "@", 2) + 1)
GetPkgIdWithPatchHash(path) == WithoutName(ParseDepPath(path).id)
TryGetPackageId(path) == WithoutName(RemoveSuffix(path))

Parse(path) ==
  LET sep == IndexOf(path, "@", 2)
      rest == From(path, sep + 1)
      at == IndexOfPeersSuffix(rest)
      end == IF at.patch # 0 THEN at.patch ELSE IF at.peers # 0 THEN at.peers ELSE Len(rest) + 1
      version == Upto(rest, end - 1)
  IN  IF sep = 0 \/ rest = <<>> THEN [found |-> FALSE]
      ELSE [found |-> TRUE, name |-> Upto(path, sep - 1), version |-> version,
            semver |-> Len(version) = 1 /\ version[1] \in Versions,
            patchHash |-> CASE at.patch = 0 -> <<>>
                            [] at.patch # 0 /\ at.peers = 0 -> From(rest, at.patch)
                            [] OTHER -> SubSeq(rest, at.patch, at.peers - 1),
            peersSuffix |-> IF at.peers = 0 THEN <<>> ELSE From(rest, at.peers)]
-----------------------------------------------------------------------------
\* What a dependent writes of a package that it has under an alias.
DepPathToRef(path, alias, realName) ==
  IF alias = realName /\ IsPrefix(Append(realName, "@"), path)
  THEN From(path, Len(realName) + 2) ELSE path

NoPath == <<>>
RefToRelative(reference, pkgName) ==
  LET at == IndexOf(reference, "@", 1)
      colon == IndexOf(reference, ":", 1)
      bracket == IndexOf(reference, "(", 1)
      isPath == /\ at # 0
                /\ at = 1 \/ ((colon = 0 \/ at < colon) /\ (bracket = 0 \/ at < bracket))
  IN  CASE IsPrefix(<<"link", ":">>, reference) -> NoPath
        [] ~IsPrefix(<<"link", ":">>, reference) /\ isPath -> reference
        [] OTHER -> pkgName \o <<"@">> \o reference

Before(a, b) ==
  \/ IsStrictPrefix(a, b)
  \/ \E i \in DOMAIN a \cap DOMAIN b : Upto(a, i - 1) = Upto(b, i - 1) /\ Rank[a[i]] < Rank[b[i]]

\* Sorted: the order in which peers are found does not count.
CreatePeersDirSuffix(peerIds) ==
  LET sorted == SortSeq(peerIds, Before)
      joined == [i \in DOMAIN sorted |-> IF i = 1 THEN sorted[i] ELSE <<")", "(">> \o sorted[i]]
      dirName == FlattenSeq(joined)
  IN  <<"(">> \o (IF Len(dirName) > MaxSuffix THEN <<CreateShortHash(dirName)>> ELSE dirName) \o <<")">>
-----------------------------------------------------------------------------
\* Brackets become lines, one for a pair that closes and opens; the last is dropped.
Unbracketed(words) ==
  LET inner == IF "(" \in ToSet(words) /\ Last(words) = ")" THEN Front(words) ELSE words
      kept == SelectSeq([i \in DOMAIN inner |-> i],
                        LAMBDA i : ~(inner[i] = "(" /\ i > 1 /\ inner[i - 1] = ")"))
  IN  [i \in DOMAIN kept |-> IF inner[kept[i]] \in Brackets THEN "_" ELSE inner[kept[i]]]

\* A name that is too long, or that differs from another one in its case only
\* maybe, has a hash of it at its end.
DepPathToFilename(path) ==
  LET bare == IF path[1] = "/" THEN Tail(path) ELSE path
      filename == Unbracketed([i \in DOMAIN bare |-> IF bare[i] \in {"/", ":"} THEN "+" ELSE bare[i]])
      capitals == \E i \in DOMAIN filename : filename[i] \in DOMAIN Lower
      cut == IF Len(filename) > MaxLength - 2 THEN Upto(filename, MaxLength - 2) ELSE filename
  IN  IF Len(filename) > MaxLength \/ (capitals /\ ~IsPrefix(<<"file", "+">>, filename))
      THEN cut \o <<"_", CreateShortHash(filename)>>
      ELSE filename
-----------------------------------------------------------------------------
Suffixed(dep) ==
  dep.name \o <<"@">> \o dep.version \o dep.patch
  \o (IF dep.peers = <<>> THEN <<>> ELSE CreatePeersDirSuffix(dep.peers))

\* What is put together is taken apart again, whatever paths of peers are nested
\* in it: the package, its patch and its peers; and a dependent that has it under
\* an alias finds the path from the reference that it writes.
PathsAreRead(dep, alias) ==
  LET path == Suffixed(dep)
      id == dep.name \o <<"@">> \o dep.version
      suffix == From(path, Len(id \o dep.patch) + 1)
      parsed == Parse(path)
  IN  /\ RemoveSuffix(path) = id
      /\ ParseDepPath(path) = [id |-> id \o dep.patch, peersSuffix |-> suffix]
      /\ parsed.found /\ parsed.name = dep.name /\ parsed.version = dep.version
      /\ parsed.patchHash = dep.patch /\ parsed.peersSuffix = suffix
      /\ GetPkgIdWithPatchHash(path) = (IF ":" \in ToSet(dep.version) THEN dep.version ELSE id) \o dep.patch
      /\ TryGetPackageId(path) = IF ":" \in ToSet(dep.version) THEN dep.version ELSE id
      /\ RefToRelative(DepPathToRef(path, alias, dep.name), alias) = path

\* Two packages, or one of them with others peers, never share a directory, not
\* where capitals do not count either; but how peers nest does not show in its name.
DirectoriesDiffer(one, other, filename) ==
  LET Flat(path) == SelectSeq(path, LAMBDA word : word \notin Brackets)
      Insensitive(name) == [i \in DOMAIN name |-> IF name[i] \in DOMAIN Lower THEN Lower[name[i]] ELSE name[i]]
  IN  /\ Insensitive(filename) = Insensitive(DepPathToFilename(Suffixed(other))) =>
           Flat(Suffixed(one)) = Flat(Suffixed(other))
      /\ Len(filename) <= MaxLength /\ ToSet(filename) \cap (Brackets \cup {"/", ":"}) = {}
=============================================================================
