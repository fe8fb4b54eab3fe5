------------------------- MODULE MCPackageRequester -------------------------
\* Instances of PackageRequester for TLC.
EXTENDS PackageRequester, TLC

CONSTANTS reg, tgz, dir, link

CallSymmetry == Permutations(Calls)

\* Default request: what a fresh `pnpm add` asks.
Add(p) == [p |-> p, via |-> "requestPackage", raw |-> TRUE, named |-> FALSE,
           expected |-> FALSE, force |-> FALSE, ver |-> 0, update |-> FALSE,
           skipFetch |-> FALSE, optional |-> FALSE]
\* What a headless install asks: no name, the expected name beside.
Headless(p, v) == [Add(p) EXCEPT !.via = "fetchPackageToStore", !.raw = FALSE,
                                 !.expected = TRUE, !.ver = v]
\* A caller of the store controller that needs the files only.
FilesOnly(p) == [Headless(p, 1) EXCEPT !.named = TRUE]
\* A package the lockfile has already.
Known(p) == [Add(p) EXCEPT !.ver = 1, !.expected = TRUE]

KindOf == (reg :> "registry") @@ (tgz :> "tarball") @@ (dir :> "dir") @@ (link :> "link")
RegKind == (reg :> "registry")
TgzKind == (tgz :> "tarball")

OnlyReg == {reg}
OnlyTgz == {tgz}
AllPkgs == {reg, tgz, dir, link}

ForcedMenu == {FilesOnly(reg), [FilesOnly(reg) EXCEPT !.force = TRUE], Headless(reg, 1)}
TgzMenu == {Add(tgz), Known(tgz), Headless(tgz, 1)}
PathMenu ==
  {Known(reg), [Add(reg) EXCEPT !.skipFetch = TRUE],
   [Known(reg) EXCEPT !.optional = TRUE], Add(dir), Headless(dir, 1),
   FilesOnly(dir), Add(link), Known(link), Known(tgz)}
TgzAndPaths == TgzMenu \cup PathMenu
=============================================================================
