------------------------------- MODULE Service -------------------------------
(***************************************************************************)
(* The spox process from its start (main.rs, context.rs): it reads its     *)
(* settings, prepares the wallet on the Bitcoin node, starts its two       *)
(* loops, and in each round of the deposit monitor imports what is missing *)
(* and looks its scripts up (bitcoin/node.rs, bitcoin/wallet.rs).  The     *)
(* process and the node may stop and start again at any time.              *)
(*                                                                         *)
(* DepositMonitor.tla has the rounds' other steps and ChainTipDispatch.tla *)
(* their tips; a round here is what it asks of the node.                   *)
(***************************************************************************)
EXTENDS BitcoinNode, Settings

CONSTANTS
  Sources,     \* the sources the process may be given: a file and an environment
  Registered,  \* the scripts of the address registry
  MaxFaults    \* bound: failing calls and other disturbances

ASSUME SourcesAssumption ==
  /\ Registered \subseteq Scripts
  /\ \A s \in Sources : DOMAIN s = {"file", "environment"}

VARIABLES
  cfg,        \* the sources, built
  pc,         \* where the process is, "off" when it does not run
  error,      \* why it ended, or what its command printed
  keeper,     \* the keeper's loop
  monitored,  \* the scripts in the storage
  tip,        \* the tip of the round, by its time
  asked,      \* what the round imports, and since when
  looked,     \* the scripts whose outputs the last round has seen, or None
  faults

processVars == <<pc, error, keeper, monitored>>
roundVars == <<tip, asked, looked>>
vars == <<nodeVars, cfg, processVars, roundVars, faults>>

settings == SettingsOf(cfg)

Stacks == INSTANCE StacksNode

Init ==
  /\ NodeInit
  /\ wallet \in {NoWallet} \cup
                [onDisk : {TRUE}, loaded : BOOLEAN, loadOnStartup : {TRUE}, held : {{}}, found : {{}}]
  /\ cfg \in {Build(s.file, s.environment) : s \in Sources}
  /\ pc = "off"
  /\ error = "none"
  /\ keeper = "off"
  /\ monitored = {}
  /\ tip = 0
  /\ asked = None
  /\ looked = None
  /\ faults = 0

Fault == faults < MaxFaults /\ faults' = faults + 1

Exit(why) ==
  /\ pc' = "off"
  /\ error' = why
  /\ keeper' = "off"
  /\ monitored' = {}
  /\ asked' = None
  /\ looked' = None
  /\ UNCHANGED tip

GoOn(to) == pc' = to /\ UNCHANGED <<error, keeper, monitored, roundVars>>

-----------------------------------------------------------------------------
(* main.                                                                   *)

\* ReclaimScriptInputs::try_new and the principal's conversion.
DepositsConvert == settings.deposit \subseteq Scripts

ReadSettings ==
  /\ pc = "off"
  /\ CASE ~ Deserializes(cfg) -> Exit("ConfigError")
       [] Deserializes(cfg) /\ ~ Validate(settings) -> Exit("SpoxConfigError")
       [] Deserializes(cfg) /\ Validate(settings) /\ ~ DepositsConvert -> Exit("SbtcError")
       [] OTHER -> pc' = "parsed" /\ error' = "none" /\ UNCHANGED <<keeper, monitored, roundVars>>
  /\ UNCHANGED <<nodeVars, cfg, faults>>

\* StacksClient::new, and TryFrom<&Settings>.
ClientError ==
  CASE ~ settings.stacks -> "MissingStacksConfig"
    [] settings.stacks /\ settings.authToken = "\n" -> "InvalidStacksAuthToken"
    [] OTHER -> "none"

AggregateKeyAnswers ==
  Stacks!BadAnswers \cup
  {Stacks!Answer(200, Stacks!Object([data |-> data])) :
     data \in {Stacks!NoHex, Stacks!UInt(0), Stacks!Buff(<<0>>), Stacks!Buff(<<2, 7>>),
               Stacks!Buff(<<0, 0>>)}}

\* get_current_signers_aggregate_key.
AggregateKeyOf(answer) ==
  LET value == Stacks!GetDataVar(answer) IN
  IF Stacks!Succeeds(value) THEN Stacks!ExtractAggregateKey(Stacks!Content(value)) ELSE Stacks!Failed

\* The commands print and end.
GetSignersXonlyKey ==
  /\ pc = "parsed"
  /\ \E answer \in AggregateKeyAnswers :
       LET key == AggregateKeyOf(answer) IN
       Exit(CASE ClientError # "none" -> "command failed"
              [] ClientError = "none" /\ ~ Stacks!Succeeds(key) -> "command failed"
              [] ClientError = "none" /\ key = Stacks!Result(Stacks!NoValue) -> "command failed"
              [] OTHER -> "printed")
  /\ UNCHANGED <<nodeVars, cfg, faults>>

GetDepositAddress ==
  /\ pc = "parsed"
  /\ Exit("printed")
  /\ UNCHANGED <<nodeVars, cfg, faults>>

\* build_endpoint: the port has to be there.
ContextError ==
  CASE ~ settings.hasPort -> "PortRequired"
    [] settings.hasPort /\ settings.registryContract # {} -> ClientError
    [] OTHER -> "none"

\* The id may have no address, or scripts that do not parse.
GetRegistryAddress ==
  /\ pc = "parsed"
  /\ \E found \in BOOLEAN :
       Exit(IF ContextError = "none" /\ settings.registryContract # {} /\ found
            THEN "printed" ELSE "command failed")
  /\ UNCHANGED <<nodeVars, cfg, faults>>

BuildContext ==
  /\ pc = "parsed"
  /\ IF ContextError = "none"
     THEN /\ pc' = IF settings.nodeWallet = {} THEN "start" ELSE "load"
          /\ monitored' = settings.deposit
          /\ UNCHANGED <<error, keeper, roundVars>>
     ELSE Exit(ContextError)
  /\ UNCHANGED <<nodeVars, cfg, faults>>

-----------------------------------------------------------------------------
(* setup_wallet.                                                           *)

\* Where load_or_create_wallet goes with the answer to loadwallet.
AfterLoad(answer) ==
  CASE answer = "not found" -> "create"
    [] answer \in {"loaded", "already loaded"} -> "start"
    [] OTHER -> "off"

TakeLoad(answer) ==
  IF AfterLoad(answer) = "off" THEN Exit(answer) ELSE GoOn(AfterLoad(answer))

LoadOrCreate ==
  /\ pc = "load"
  /\ TakeLoad(LoadAnswer)
  /\ LoadWallet
  /\ UNCHANGED <<now, paid, rescan, cut, scan, cfg, faults>>

\* The node may have loaded the wallet.
LoadFails ==
  /\ pc = "load"
  /\ Fault
  /\ TakeLoad("no answer")
  /\ LoadWallet \/ UNCHANGED wallet
  /\ UNCHANGED <<now, paid, rescan, cut, scan, cfg>>

Create ==
  /\ pc = "create"
  /\ CreateWallet
  /\ GoOn("start")
  /\ UNCHANGED <<now, paid, rescan, cut, scan, cfg, faults>>

CreateFails ==
  /\ pc = "create"
  /\ Fault
  /\ CreateWallet \/ UNCHANGED wallet
  /\ Exit("no answer")
  /\ UNCHANGED <<now, paid, rescan, cut, scan, cfg>>

-----------------------------------------------------------------------------
(* The loops.                                                              *)

StartLoops ==
  /\ pc = "start"
  /\ pc' = "idle"
  /\ keeper' = IF settings.rewardClaims = {} THEN "skipped" ELSE "starting"
  /\ UNCHANGED <<nodeVars, cfg, error, monitored, roundVars, faults>>

\* RewardClaimState::new asks once for the chain id.
KeeperStarts ==
  /\ keeper = "starting"
  /\ keeper' = IF ClientError = "none" THEN "runs" ELSE ClientError
  /\ UNCHANGED <<nodeVars, cfg, pc, error, monitored, roundVars, faults>>

KeeperFails ==
  /\ keeper = "starting"
  /\ Fault
  /\ \E answer \in Stacks!BadAnswers : ~ Stacks!Succeeds(Stacks!GetNodeInfo(answer))
  /\ keeper' = IF ClientError = "none" THEN "stopped" ELSE ClientError
  /\ UNCHANGED <<nodeVars, cfg, pc, error, monitored, roundVars>>

\* A round begins: it may learn of the registry's scripts.  Without scripts
\* there is nothing to import or to look up.
TakeTip ==
  /\ pc = "idle"
  /\ monitored' \in {monitored} \cup
                    (IF settings.registryContract = {} THEN {} ELSE {monitored \cup Registered})
  /\ tip' = now
  /\ looked' = None
  /\ pc' = CASE monitored' = {} -> "idle"
             [] monitored' # {} /\ settings.nodeWallet = {} -> "status"
             [] OTHER -> "descriptors"
  /\ UNCHANGED <<nodeVars, cfg, error, keeper, asked, faults>>

Looked(answer) ==
  /\ pc' = "idle"
  /\ looked' = answer
  /\ UNCHANGED <<error, keeper, monitored, tip, asked>>

\* Faulty: every descriptor looks new.
KeepChecksum(desc) == desc

\* strip_checksum.
StripChecksum(desc) == IF Len(desc) = 1 THEN desc ELSE SubSeq(desc, 1, Len(desc) - 1)

\* The scripts whose descriptors the wallet does not list.
Missing(listed) ==
  LET descriptors == {StripChecksum(d) : d \in listed} IN
  {s \in monitored : Raw(s) \notin descriptors}

RescanFrom == CHOOSE t \in {GetRescanTimestamp(w, now) : w \in settings.nodeWallet} : TRUE

\* import_descriptors up to the import.  Skipped ones had no get_descriptor_info.
Prepare(listed, skipped) ==
  /\ pc = "descriptors"
  /\ IF Missing(listed) \ skipped = {}
     THEN pc' = "unspent" /\ UNCHANGED asked
     ELSE /\ pc' = "import"
          /\ asked' = <<[scripts |-> Missing(listed) \ skipped, timestamp |-> RescanFrom]>>
  /\ UNCHANGED <<nodeVars, cfg, error, keeper, monitored, tip, looked>>

ListDescriptors ==
  /\ wallet.loaded
  /\ Prepare(Descriptors, {})
  /\ UNCHANGED faults

DescriptorInfoFails ==
  /\ wallet.loaded
  /\ Fault
  /\ \E skipped \in SUBSET Missing(Descriptors) : Prepare(Descriptors, skipped)

\* update_wallet fails: the round goes on.
LeaveWallet == pc' = "unspent" /\ asked' = None /\ UNCHANGED <<error, keeper, monitored, tip, looked>>

ListDescriptorsFails ==
  /\ pc = "descriptors"
  /\ IF wallet.loaded THEN Fault ELSE UNCHANGED faults
  /\ LeaveWallet
  /\ UNCHANGED <<nodeVars, cfg>>

\* The wallet has the descriptors at once, but for those the node refuses.
Import(refused) ==
  /\ pc = "import"
  /\ CanImport
  /\ ImportDescriptors(asked[1].scripts \ refused, asked[1].timestamp)
  /\ pc' = "rescan"
  /\ asked' = None
  /\ UNCHANGED <<now, paid, cut, scan, cfg, error, keeper, monitored, tip, looked>>

ImportMissing == Import({}) /\ UNCHANGED faults

ImportRefuses == pc = "import" /\ Fault /\ \E refused \in SUBSET asked[1].scripts : Import(refused)

ImportFails ==
  /\ pc = "import"
  /\ IF CanImport THEN Fault ELSE UNCHANGED faults
  /\ LeaveWallet
  /\ UNCHANGED <<nodeVars, cfg>>

\* The call returns with the end of the rescan, or times out before.
AwaitRescan ==
  /\ pc = "rescan"
  /\ rescan = None
  /\ GoOn("unspent")
  /\ UNCHANGED <<nodeVars, cfg, faults>>

RescanTimesOut ==
  /\ pc = "rescan"
  /\ rescan # None
  /\ GoOn("unspent")
  /\ UNCHANGED <<nodeVars, cfg, faults>>

\* get_utxos with a wallet keeps the outputs to monitored scripts.
ListUnspent ==
  /\ pc = "unspent"
  /\ Looked(IF wallet.loaded THEN <<wallet.found \cap monitored>> ELSE None)
  /\ UNCHANGED <<nodeVars, cfg, faults>>

ListUnspentFails ==
  /\ pc = "unspent"
  /\ Fault
  /\ Looked(None)
  /\ UNCHANGED <<nodeVars, cfg>>

\* get_utxos without a wallet: no scan while another is going on.
ScanStatus ==
  /\ pc = "status"
  /\ IF scan = None THEN GoOn("scan") ELSE Looked(None)
  /\ UNCHANGED <<nodeVars, cfg, faults>>

BeginScan ==
  /\ pc = "scan"
  /\ IF scan = None
     THEN StartScan(monitored) /\ GoOn("scanning")
     ELSE UNCHANGED scan /\ Looked(None)
  /\ UNCHANGED <<now, paid, wallet, rescan, cut, cfg, faults>>

\* scan_tx_out_set.
TakeScan(success, unspents) == IF success THEN <<unspents>> ELSE None

ScanEnds ==
  /\ pc = "scanning"
  /\ scan # None
  /\ Looked(TakeScan(TRUE, scan[2]))
  /\ scan' = None
  /\ UNCHANGED <<now, paid, wallet, rescan, cut, cfg, faults>>

\* scantxoutset abort: the scan answers with what it has found so far.
ScanAborted ==
  /\ pc = "scanning"
  /\ scan # None
  /\ Fault
  /\ \E found \in SUBSET scan[2] : Looked(TakeScan(FALSE, found))
  /\ scan' = None
  /\ UNCHANGED <<now, paid, wallet, rescan, cut, cfg>>

\* The scan goes on after the client has given up.
ScanFails ==
  /\ pc \in {"status", "scan", "scanning"}
  /\ Fault
  /\ Looked(None)
  /\ UNCHANGED <<nodeVars, cfg>>

-----------------------------------------------------------------------------
Stop ==
  /\ pc # "off"
  /\ Fault
  /\ Exit("stopped")
  /\ UNCHANGED <<nodeVars, cfg>>

\* A call in progress fails with the node.
NodeStops ==
  /\ Fault
  /\ RestartNode
  /\ CASE pc = "scanning" -> Looked(None)
       [] pc = "rescan" -> GoOn("unspent")
       [] OTHER -> UNCHANGED <<processVars, roundVars>>
  /\ UNCHANGED cfg

NodeActs ==
  /\ \/ \E scripts \in SUBSET Scripts : NewBlock(scripts) /\ UNCHANGED faults
     \/ FinishRescan /\ UNCHANGED faults
     \/ FinishScan /\ pc # "scanning" /\ UNCHANGED faults
     \/ OtherScan /\ Fault
  /\ UNCHANGED <<cfg, processVars, roundVars>>

Work ==
  \/ BuildContext \/ LoadOrCreate \/ Create \/ StartLoops
  \/ TakeTip
  \/ ListDescriptors \/ ListDescriptorsFails \/ ImportMissing \/ ImportFails \/ AwaitRescan
  \/ ListUnspent
  \/ ScanStatus \/ BeginScan \/ ScanEnds

Next ==
  \/ NodeActs \/ NodeStops
  \/ ReadSettings \/ GetSignersXonlyKey \/ GetDepositAddress \/ GetRegistryAddress
  \/ LoadFails \/ CreateFails \/ KeeperStarts \/ KeeperFails
  \/ DescriptorInfoFails \/ ImportRefuses \/ RescanTimesOut
  \/ ListUnspentFails \/ ScanAborted \/ ScanFails
  \/ Stop
  \/ Work

\* Blocks go on, so a round follows another; the process goes on and the node
\* finishes what it has begun.
Spec ==
  /\ Init /\ [][Next]_vars
  /\ WF_vars(Work)
  /\ WF_vars(FinishRescan /\ UNCHANGED <<cfg, processVars, roundVars, faults>>)
  /\ WF_vars(FinishScan /\ pc # "scanning" /\ UNCHANGED <<cfg, processVars, roundVars, faults>>)

-----------------------------------------------------------------------------
\* What validate lets through is enough: the process ends only when the
\* settings lack a port or hold a token that is no header, when a call has
\* failed, or when it is stopped, and the keeper finds the Stacks settings it
\* needs.
ValidatedSettingsSuffice ==
  /\ error \notin {"MissingStacksConfig", "already loaded", "not found"}
  /\ error = "PortRequired" => ~ settings.hasPort
  /\ keeper # "MissingStacksConfig"

\* The scripts a lookup answers for: all when it scans, and the ones the wallet
\* holds and has rescanned from the first block.
Answers(s) ==
  \A w \in settings.nodeWallet :
    /\ s \in wallet.held \ cut
    /\ rescan # None => s \notin rescan[1].scripts
    /\ w.rescanTimestamp = 0

\* A lookup is right for the tip of its round, or fails: it has every output to
\* a script it answers for that was there when the round began, and nothing
\* else; a scan that another caller, a timeout or an abort has spoilt is not
\* taken for an answer.
LookupsCoverTheTip ==
  [][looked' # looked /\ looked' # None =>
       /\ looked'[1] \subseteq monitored \cap DOMAIN paid
       /\ {s \in monitored \cap DOMAIN paid : paid[s] <= tip /\ Answers(s)} \subseteq looked'[1]]_vars

\* A descriptor the wallet holds is not imported again: nobody waits for a
\* rescan of the chain in every round.
NothingImportedTwice ==
  [][rescan' # None /\ rescan' # rescan => rescan'[1].scripts \cap wallet.held = {}]_vars

\* An output to a monitored script is seen by a lookup, whatever failed before,
\* unless the process is off, the wallet's rescan begins after the output, or
\* the node gave the rescan up.
OutputsAreSeen ==
  \A s \in Scripts :
    s \in monitored \cap DOMAIN paid ~>
      \/ pc = "off"
      \/ looked # None /\ s \in looked[1]
      \/ s \in cut
      \/ \E w \in settings.nodeWallet : w.rescanTimestamp # 0
=============================================================================
