---------------------------- MODULE MCConfigReload ----------------------------
(***************************************************************************)
(* A few configuration files, two command lines and two SIGHUPs.           *)
(***************************************************************************)
EXTENDS ConfigReload, TLC

Entry(h, s, r, e) ==
  [pinghosts |-> h, schedule |-> s, ramdisk |-> r, errors |-> e]

\* Nothing; hosts and a schedule; another schedule; a malformed file; no hosts.
SomeFiles ==
  { Entry("unset", "unset", "unset", FALSE),
    Entry("h1", "l1", "FALSE", FALSE),
    Entry("unset", "l2", "unset", FALSE),
    Entry("h1", "bad", "FALSE", FALSE),
    Entry(Null, "l1", "TRUE", TRUE) }
SomeArgvs ==
  { [hosts |-> "unset", ramdisk |-> "unset"],
    [hosts |-> "h2", ramdisk |-> "FALSE"] }

BufferSymmetry == Permutations(Buffers)

=============================================================================
