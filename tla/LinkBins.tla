------------------------------ MODULE LinkBins ------------------------------
\* pkg-manager/link-bins: which package gives a command of node_modules/.bin.
EXTENDS Naturals, FiniteSets, Sequences, SequencesExt

\* A command is [name, pkgName, version, direct, broken]: the package it comes
\* from, a number in the order of names whose own command is the same number,
\* whether that is a dependency of the project, and whether linking it fails.

OwnName(cmd) == cmd.name = cmd.pkgName

PreferDirectCmds(cmds) ==
  LET direct == SelectSeq(cmds, LAMBDA c : c.direct)
  IN  direct \o SelectSeq(cmds, LAMBDA c : ~c.direct /\ \A i \in DOMAIN direct : direct[i].name # c.name)

\* a is not behind b.
CompareCommandsInConflict(a, b) ==
  CASE OwnName(a) # OwnName(b) -> OwnName(a)
    [] OwnName(a) = OwnName(b) /\ a.pkgName # b.pkgName -> a.pkgName > b.pkgName
    [] OTHER -> a.version >= b.version

ResolveCommandConflicts(group) ==
  FoldLeft(LAMBDA a, b : IF CompareCommandsInConflict(a, b) THEN a ELSE b, group[1], Tail(group))

DeduplicateCommands(cmds) ==
  {ResolveCommandConflicts(SelectSeq(cmds, LAMBDA c : c.name = name)) :
     name \in {cmds[i].name : i \in DOMAIN cmds}}

\* All that can be linked are, before the first failure is thrown.
LinkBinsOf(cmds, preferDirect) ==
  LET chosen == DeduplicateCommands(IF preferDirect THEN PreferDirectCmds(cmds) ELSE cmds)
      failed == {c \in chosen : c.broken}
  IN  [linked |-> chosen \ failed, ok |-> failed = {}]

-----------------------------------------------------------------------------
\* Whatever the order in which packages are read, the same package gives a
\* command: the one of the command's name before others, a dependency of the
\* project before what is hoisted; a failure leaves the other commands linked.
BinsAreStable(cmds, preferDirect, result) ==
  LET all == ToSet(cmds)
      Versions(set) == {<<c.name, c.pkgName, c.version>> : c \in set}
      Rivals(c) == {o \in all : o.name = c.name /\ (preferDirect /\ c.direct => o.direct)}
  IN  /\ \A order \in [DOMAIN cmds -> DOMAIN cmds] :
           ToSet([i \in DOMAIN cmds |-> cmds[order[i]]]) = all =>
             LET other == LinkBinsOf([i \in DOMAIN cmds |-> cmds[order[i]]], preferDirect)
             IN  other.ok = result.ok /\ Versions(other.linked) = Versions(result.linked)
      /\ \A c \in result.linked :
           /\ preferDirect /\ ~c.direct => \A o \in all : o.name = c.name => ~o.direct
           /\ ~OwnName(c) => \A o \in Rivals(c) : ~OwnName(o)
           /\ \A o \in Rivals(c) : o.pkgName = c.pkgName => o.version <= c.version
      /\ result.ok => {c.name : c \in result.linked} = {c.name : c \in all}
=============================================================================
