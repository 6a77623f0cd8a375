--------------------------- MODULE MCChatTransfer ---------------------------
(***************************************************************************)
(* ChatTransfer on small instances for TLC: each setting has what makes    *)
(* one part of the system interesting, and not the others.                 *)
(***************************************************************************)
EXTENDS ChatTransfer, TLC

CONSTANTS p1, p2

Dialog(kind, strategy, access, host) ==
  [kind |-> kind, strategy |-> strategy, access |-> access, host |-> host]

Setting(dialogOfIt, status, count, busy, faultsInIt) ==
  [dialog |-> dialogOfIt, mapping |-> [target |-> 0, status |-> status],
   files |-> [m \in Messages |-> IF m \in WithAttachment THEN count ELSE 0],
   bound |-> [busy |-> busy, faults |-> faultsInIt]]

Both(host) == [p \in {p1, p2} |-> host]
One(host) == [p \in {p1} |-> host]

MCSettings ==
  {Setting(Dialog("channel", "create", "direct_add", Both("other")), "active", 0, 1, 2),
   Setting(Dialog("group", "create", "direct_add", One("unrouted")), "none", 0, 2, 0),
   Setting(Dialog("channel", "create", "invite_link", One("anchor")), "none", 0, 1, 2),
   Setting(Dialog("private", "create", "direct_add", One("anchor")), "none", 0, 2, 1),
   Setting(Dialog("group", "bind", "direct_add", One("anchor")), "none", 1, 1, 2),
   Setting(Dialog("private", "create", "direct_add", One("anchor")), "active", 2, 1, 1)}

Symmetry == Permutations(Backfills)
=============================================================================
