------------------------------- MODULE MCFiles -------------------------------
EXTENDS Files

CONSTANTS f1, d1

At(names) == [abs |-> TRUE, names |-> names]
Here(names) == [abs |-> FALSE, names |-> names]

\* Making and removing names; open files; processes; mounts.
MCPrograms ==
  {[calls |-> {"mkdir", "rmdir", "link", "unlink", "open", "close"},
    paths |-> {At(<<f1>>), Here(<<d1>>), Here(<<d1, f1>>)}, dirs |-> {},
    risks |-> {}],
   [calls |-> {"open", "read", "write", "lseek", "dup", "close"},
    paths |-> {At(<<f1>>), At(<< >>)}, dirs |-> {}, risks |-> {}],
   [calls |-> {"open", "write", "close", "unlink", "fork", "exit", "execve"},
    paths |-> {At(<<f1>>)}, dirs |-> {}, risks |-> {"open_unlink"}],
   [calls |-> {"mkdir", "mkfs", "mount", "umount", "chdir", "mknod", "stat"},
    paths |-> {Here(<<d1>>), At(<<"dev">>), Here(<<d1, f1>>)},
    dirs |-> {At(<< >>), At(<<d1>>), At(<<d1, "..">>)}, risks |-> {}]}
==============================================================================
