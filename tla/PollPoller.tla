---------------------------- MODULE PollPoller -----------------------------
(***************************************************************************)
(* PollPoller (net/poller/wf_poll_poller.cc) and the registration half of  *)
(* Channel (net/wf_channel.h): pollfds_, the vector handed to poll(2),     *)
(* channels_, the map from descriptors to channels, and in each channel    *)
(* events_ and index_, its position in pollfds_. Everything here runs on   *)
(* the loop's thread; callers call the channel's methods in any order.     *)
(*                                                                         *)
(* A failed assert or a null dereference ends the program: fault names it  *)
(* and nothing happens afterwards. index_ counts from 0, pollfds from 1.   *)
(***************************************************************************)
EXTENDS Integers, Sequences

CONSTANTS Channels,   \* channel objects
          FdOf        \* FdOf[c]: the descriptor c was built with

ASSUME FdAssumption == FdOf \in [Channels -> Nat]

VARIABLES pollfds,    \* pollfds_, as records [fd, events]
          channels,   \* channels_, a function from registered descriptors
          index,      \* index_ of each channel
          events,     \* events_ of each channel
          fault       \* the assertion or dereference that failed

pollerVars == <<pollfds, channels, index, events, fault>>

Events == {"read", "write"}
Parked == -1          \* the fd of an entry that poll(2) ignores
NoIndex == -1
PollFds == [fd : Nat \cup {Parked}, events : SUBSET Events]

(* The first three are asserts on what the caller does, the fourth a null  *)
(* dereference, the last two asserts on the poller's own bookkeeping.      *)
Faults == {"none", "fdTaken", "notRegistered", "otherChannel", "nullChannel",
           "badIndex", "unknownFd"}

Registered(c) == FdOf[c] \in DOMAIN channels /\ channels[FdOf[c]] = c

PollerTypeOK ==
    /\ pollfds \in Seq(PollFds)
    /\ DOMAIN channels \subseteq Nat
    /\ \A fd \in DOMAIN channels : channels[fd] \in Channels
    /\ index \in [Channels -> Int]
    /\ events \in [Channels -> SUBSET Events]
    /\ fault \in Faults

PollerInit ==
    /\ pollfds = <<>>
    /\ channels = [fd \in {} |-> fd]
    /\ index = [c \in Channels |-> NoIndex]
    /\ events = [c \in Channels |-> {}]
    /\ fault = "none"

Fail(f) ==
    /\ fault' = f
    /\ UNCHANGED <<pollfds, channels, index, events>>

---------------------------------------------------------------------------
(* updateChannel(), reached from Channel::update() with events_ = ev.      *)

(* A mutant of NewIndex: pollfds_.size() instead of pollfds_.size() - 1.    *)
NewIndexOffByOne == Len(pollfds) + 1

(* The position of the entry about to be pushed back.                      *)
NewIndex == Len(pollfds)

AddChannel(c, ev) ==
    IF FdOf[c] \in DOMAIN channels
    THEN Fail("fdTaken")
    ELSE /\ pollfds' = Append(pollfds, [fd |-> FdOf[c], events |-> ev])
         /\ index' = [index EXCEPT ![c] = NewIndex]
         /\ channels' = [fd \in DOMAIN channels \cup {FdOf[c]} |->
                            IF fd = FdOf[c] THEN c ELSE channels[fd]]
         /\ events' = [events EXCEPT ![c] = ev]
         /\ UNCHANGED fault

(* An entry whose channel wants nothing any more is parked, and stays so:  *)
(* no line gives the entry its descriptor back.                            *)
UpdatedEntry(i, ev) ==
    [fd |-> IF ev = {} THEN Parked ELSE pollfds[i].fd, events |-> ev]

ModifyChannel(c, ev) ==
    LET i == index[c] + 1 IN
    IF FdOf[c] \notin DOMAIN channels THEN Fail("notRegistered")
    ELSE IF channels[FdOf[c]] # c THEN Fail("otherChannel")
    ELSE IF i \notin 1 .. Len(pollfds) \/ pollfds[i].fd \notin {FdOf[c], Parked}
         THEN Fail("badIndex")
    ELSE /\ pollfds' = [pollfds EXCEPT ![i] = UpdatedEntry(i, ev)]
         /\ events' = [events EXCEPT ![c] = ev]
         /\ UNCHANGED <<channels, index, fault>>

UpdateChannel(c, ev) ==
    /\ fault = "none"
    /\ IF index[c] = NoIndex THEN AddChannel(c, ev) ELSE ModifyChannel(c, ev)

EnableReading(c)  == UpdateChannel(c, events[c] \cup {"read"})
EnableWriting(c)  == UpdateChannel(c, events[c] \cup {"write"})
DisableWriting(c) == UpdateChannel(c, events[c] \ {"write"})

(* events_ |= kNoneEvent: nothing is disabled.                             *)
DisableAll(c) == UpdateChannel(c, events[c])

---------------------------------------------------------------------------
(* A mutant of SwapOut: the last entry takes the place of the removed one, *)
(* and its channel is not told.                                            *)
SwapOutSilently(c, last) == index

(* index_ of the channel whose entry was moved; the removed channel keeps  *)
(* its stale index_.                                                       *)
SwapOut(c, last) == [index EXCEPT ![last] = index[c]]

(* A mutant of DropEntry: erase() from the middle of the vector.           *)
EraseEntry(i) == SubSeq(pollfds, 1, i - 1) \o SubSeq(pollfds, i + 1, Len(pollfds))

(* The removed entry is overwritten by the last one, which is dropped.     *)
DropEntry(i) ==
    [j \in 1 .. Len(pollfds) - 1 |-> IF j = i THEN pollfds[Len(pollfds)] ELSE pollfds[j]]

(* removeChannel(). The descriptor of the last entry is used as the key of *)
(* the channel to move; if that entry is parked, channels_[-1] is null.    *)
RemoveChannel(c) ==
    /\ fault = "none"
    /\ LET fdAtEnd == pollfds[Len(pollfds)].fd IN
       IF index[c] = NoIndex
       THEN /\ FdOf[c] \in DOMAIN channels
            /\ Fail("fdTaken")
       ELSE IF FdOf[c] \notin DOMAIN channels THEN Fail("notRegistered")
       ELSE IF channels[FdOf[c]] # c THEN Fail("otherChannel")
       ELSE IF fdAtEnd \notin DOMAIN channels THEN Fail("nullChannel")
       ELSE /\ channels' = [fd \in DOMAIN channels \ {FdOf[c]} |-> channels[fd]]
            /\ index' = IF fdAtEnd = FdOf[c] THEN index ELSE SwapOut(c, channels[fdAtEnd])
            /\ pollfds' = DropEntry(IF fdAtEnd = FdOf[c] THEN Len(pollfds)
                                    ELSE index[c] + 1)
            /\ UNCHANGED <<events, fault>>

(* A channel object that is not registered is destroyed, and a new one is  *)
(* built at the same place.                                                *)
Rebuild(c) ==
    /\ fault = "none"
    /\ ~Registered(c)
    /\ index[c] # NoIndex
    /\ index' = [index EXCEPT ![c] = NoIndex]
    /\ events' = [events EXCEPT ![c] = {}]
    /\ UNCHANGED <<pollfds, channels, fault>>

---------------------------------------------------------------------------
(* poll() and fillActiveChannels(). poll(2) may report any entry with a    *)
(* descriptor, if only for an error; each is looked up in channels_ and    *)
(* its channel handed to the loop. Nothing here changes.                   *)

Reportable == {i \in 1 .. Len(pollfds) : pollfds[i].fd # Parked}

Poll(reported) ==
    /\ fault = "none"
    /\ IF \E i \in reported :
            LET fd == pollfds[i].fd IN fd \notin DOMAIN channels \/ FdOf[channels[fd]] # fd
       THEN Fail("unknownFd")
       ELSE UNCHANGED pollerVars

---------------------------------------------------------------------------
PollerNext ==
    \/ \E c \in Channels :
        \/ EnableReading(c) \/ EnableWriting(c)
        \/ DisableWriting(c) \/ DisableAll(c)
        \/ RemoveChannel(c)
        \/ Rebuild(c)
    \/ \E reported \in SUBSET Reportable : Poll(reported)

PollerSpec == PollerInit /\ [][PollerNext]_pollerVars

---------------------------------------------------------------------------
(* Properties.                                                             *)

ChannelHasEntry ==
    \A fd \in DOMAIN channels :
        LET c == channels[fd]
            i == index[c] + 1 IN
        /\ FdOf[c] = fd
        /\ i \in 1 .. Len(pollfds)
        /\ pollfds[i].fd \in {fd, Parked}
        /\ pollfds[i].events = events[c]

EntryHasChannel ==
    \A i \in 1 .. Len(pollfds) : \E fd \in DOMAIN channels : index[channels[fd]] = i - 1

EntriesDistinct ==
    \A fd1, fd2 \in DOMAIN channels :
        index[channels[fd1]] = index[channels[fd2]] => fd1 = fd2

(* pollfds_, channels_, index_ and events_ tell one story: each registered *)
(* channel has an entry of its own with its events and its descriptor (or  *)
(* the parking mark), and each entry belongs to a registered channel. The  *)
(* swap in removeChannel() is what could break it.                         *)
IndexConsistent ==
    /\ ChannelHasEntry
    /\ EntryHasChannel
    /\ EntriesDistinct

(* The asserts on the poller's own bookkeeping never fail, whatever callers*)
(* do: only the asserts on the callers can.                                *)
BookkeepingSound == fault \notin {"badIndex", "unknownFd"}

(* Adding, changing or removing one channel leaves every other channel's   *)
(* entry as poll(2) sees it alone.                                         *)
OthersUndisturbed ==
    [][\A c \in Channels :
          /\ Registered(c) /\ events[c] # {}
          /\ Registered(c)' /\ events'[c] = events[c]
          => pollfds'[index'[c] + 1] = pollfds[index[c] + 1]]_pollerVars
=============================================================================
