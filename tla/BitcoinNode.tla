----------------------------- MODULE BitcoinNode -----------------------------
(***************************************************************************)
(* A Bitcoin Core node as spox uses it: blocks that pay to scripts, one    *)
(* watch-only wallet, and the slot of the scantxoutset scan.  A wallet     *)
(* lives on the node's disk and holds descriptors; importing one rescans   *)
(* the blocks since a time, which goes on when the caller stops waiting    *)
(* and is given up when the node stops.  So does a scan.                   *)
(***************************************************************************)
EXTENDS Integers, Sequences

CONSTANTS
  Scripts,
  MaxTime    \* bound: the time of the last block

VARIABLES
  now,       \* the time of the last block
  paid,      \* the scripts that have an output, with the time of its block
  wallet,    \* the wallet: is it on disk, is it loaded, and its scripts
  rescan,    \* the import that is being rescanned, or None
  cut,       \* scripts whose rescan was given up
  scan       \* the scan that is going on, or None

nodeVars == <<now, paid, wallet, rescan, cut, scan>>

None == << >>

NoWallet == [onDisk |-> FALSE, loaded |-> FALSE, loadOnStartup |-> FALSE, held |-> {}, found |-> {}]

NodeInit ==
  /\ now = 0
  /\ paid = None
  /\ rescan = None
  /\ cut = {}
  /\ scan = None

-----------------------------------------------------------------------------
(* The node on its own.                                                    *)

\* A block, with an output to each of the scripts.  A wallet that is not loaded
\* catches up when it is.
NewBlock(scripts) ==
  /\ now < MaxTime
  /\ now' = now + 1
  /\ paid' = [s \in DOMAIN paid \cup scripts |-> IF s \in DOMAIN paid THEN paid[s] ELSE now + 1]
  /\ wallet' = [wallet EXCEPT !.found = @ \cup (scripts \cap wallet.held)]
  /\ UNCHANGED <<rescan, cut, scan>>

PaidSince(scripts, time) == {s \in scripts \cap DOMAIN paid : paid[s] >= time}

FinishRescan ==
  /\ rescan # None
  /\ wallet' = [wallet EXCEPT !.found = @ \cup PaidSince(rescan[1].scripts, rescan[1].timestamp)]
  /\ rescan' = None
  /\ UNCHANGED <<now, paid, cut, scan>>

FinishScan ==
  /\ scan # None
  /\ scan' = None
  /\ UNCHANGED <<now, paid, wallet, rescan, cut>>

\* Somebody else's scan, of scripts of theirs.
OtherScan ==
  /\ scan = None
  /\ scan' = <<"theirs", {}>>
  /\ UNCHANGED <<now, paid, wallet, rescan, cut>>

RestartNode ==
  /\ wallet' = [wallet EXCEPT !.loaded = wallet.loadOnStartup]
  /\ cut' = cut \cup (IF rescan = None THEN {} ELSE rescan[1].scripts)
  /\ rescan' = None
  /\ scan' = None
  /\ UNCHANGED <<now, paid>>

-----------------------------------------------------------------------------
(* The calls.                                                              *)

\* loadwallet; the errors have the codes -35 and -18.
LoadAnswer ==
  CASE wallet.loaded -> "already loaded"
    [] ~ wallet.loaded /\ wallet.onDisk -> "loaded"
    [] OTHER -> "not found"

LoadWallet == wallet' = [wallet EXCEPT !.loaded = @ \/ wallet.onDisk]

\* Faulty: the node does not load the wallet when it starts.
CreateForSession ==
  wallet' = [NoWallet EXCEPT !.onDisk = TRUE, !.loaded = TRUE]

\* createwallet, with load_on_startup.
CreateWallet ==
  wallet' = [NoWallet EXCEPT !.onDisk = TRUE, !.loaded = TRUE, !.loadOnStartup = TRUE]

\* listdescriptors, listunspent and importdescriptors need the wallet loaded; a
\* descriptor is listed with its checksum.
Raw(script) == <<script>>
WithChecksum(desc) == desc \o <<"checksum">>

Descriptors == {WithChecksum(Raw(s)) : s \in wallet.held}

\* One rescan at a time.
CanImport == wallet.loaded /\ rescan = None

ImportDescriptors(scripts, timestamp) ==
  /\ wallet' = [wallet EXCEPT !.held = @ \cup scripts]
  /\ rescan' = <<[scripts |-> scripts, timestamp |-> timestamp]>>

\* A scan reads the unspent outputs as they are when it starts.
StartScan(scripts) == scan' = <<"ours", scripts \cap DOMAIN paid>>
=============================================================================
