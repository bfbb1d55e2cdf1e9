----------------------------- MODULE ChainStore -----------------------------
(***************************************************************************)
(* What the chain database of a node holds, and how it may change, through *)
(* the starts, the configuration upgrades and the crashes of the service   *)
(* that owns it.  To whoever reads the database an upgrade to a            *)
(* configuration that disagrees with the stored one from block Fork on is  *)
(* one step: the blocks from Fork on are gone and the new configuration is *)
(* in force.  Beside that, blocks are removed only by a rewind the user    *)
(* asks for, which leaves the configuration alone, and a block is only     *)
(* ever accepted under the configuration in force.                         *)
(***************************************************************************)
EXTENDS Integers, Sequences

CONSTANTS
    Configs,            \* chain configurations
    Fork,               \* first height at which two different Configs disagree
    BlockChainVersion,  \* the database version of this program
    None                \* no configuration stored yet

VARIABLES
    version,   \* the database version, 0 when none is stored
    config,    \* the chain configuration in force
    chain      \* chain[h]: the configuration block h was accepted under

vars == <<version, config, chain>>

Init ==
    /\ version \in 0 .. BlockChainVersion
    /\ config = None
    /\ chain = <<>>

\* A database without a version becomes one of this program's version.
Stamp ==
    /\ version = 0
    /\ version' = BlockChainVersion
    /\ UNCHANGED <<config, chain>>

\* A configuration is put in force that no block of the chain disagrees with.
Configure(c) ==
    /\ config \in {None, c} \/ Len(chain) < Fork
    /\ config' = c
    /\ UNCHANGED <<version, chain>>

\* A configuration that blocks of the chain disagree with is put in force,
\* and the chain ends below Fork.
Upgrade(c) ==
    /\ config \notin {None, c} /\ Len(chain) >= Fork
    /\ config' = c
    /\ chain' = SubSeq(chain, 1, Fork - 1)
    /\ UNCHANGED version

\* A block is accepted under the configuration in force.
Import ==
    /\ config # None
    /\ chain' = Append(chain, config)
    /\ UNCHANGED <<version, config>>

\* The head is set back to block n, and to the genesis block by a reset,
\* under the configuration in force.
Rewind(n) ==
    /\ n < Len(chain)
    /\ chain' = SubSeq(chain, 1, n)
    /\ UNCHANGED <<version, config>>

Next ==
    \/ Stamp
    \/ Import
    \/ \E n \in 0 .. Len(chain) : Rewind(n)
    \/ \E c \in Configs : Configure(c) \/ Upgrade(c)

Spec == Init /\ [][Next]_vars

=============================================================================
