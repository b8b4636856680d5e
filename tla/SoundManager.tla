----------------------------- MODULE SoundManager -----------------------------
(***************************************************************************)
(* sound/sound.cpp: the cache of sound files, the channels that play them  *)
(* and the queue of delayed sounds; with objects/object.cpp, whose objects *)
(* keep the number of the channel of a sound that goes on, and the ways in *)
(* which everything falls silent: mute, pause, and the window's focus.     *)
(*                                                                         *)
(* A channel plays a sound through the buffer of the cache entry itself,   *)
(* <<sound, 0>>, or while that one plays through a copy, <<sound, channel>>.*)
(* All code runs in one thread; only buffers come to their end on their own.*)
(***************************************************************************)
EXTENDS Integers, Sequences, FiniteSets, SequencesExt, FiniteSetsExt, SequenceFilter

CONSTANTS
    Noisy,
    Loops, Endings, \* sounds given to sndl and sndc; both are also played once
    NoSound, NoObject,
    Channels,       \* kSoundChannelCount
    Capacities,     \* what the cache may hold; every sound has size 1
    FadeUpdates,    \* updates a fade takes
    MaxQueued       \* bound: sounds in the queue

Sounds == Loops \union Endings

ASSUME SoundAssumption ==
    /\ Loops \intersect Endings = {} /\ NoSound \notin Sounds /\ NoObject \notin Noisy
    /\ IsFiniteSet(Sounds) /\ Channels \in Nat \ {0} /\ Capacities \subseteq Nat
    /\ FadeUpdates \in Nat \ {0} /\ MaxQueued \in Nat

VARIABLES
    mixer,    \* the manager: cache, channel, playing, live, active, refs, total
    capacity, scheduled,
    handle, wanted, \* an object's channel and its sound that goes on
    alive,    \* "ticks", "killed" (until the next save), "gone"
    muted, paused, suspended

noisyVars == <<handle, wanted, alive>>
soundVars == <<mixer, capacity, scheduled, noisyVars, muted, paused, suspended>>

Channel == 1 .. Channels
None == 0
\* by: history, the object whose sound it is
Free == [on |-> FALSE, sound |-> NoSound, copy |-> FALSE, kept |-> FALSE, fade |-> 0,
         by |-> NoObject]
Entry(s) == <<s, 0>>
Voice(m, i) == <<m.channel[i].sound, IF m.channel[i].copy THEN i ELSE 0>>
Buffers == Sounds \X (0 .. Channels)
On(m) == {i \in Channel : m.channel[i].on}

ChannelState == [on : BOOLEAN, sound : Sounds \union {NoSound}, copy : BOOLEAN, kept : BOOLEAN,
                 fade : 0 .. FadeUpdates, by : Noisy \union {NoObject}]
Mixer == [cache : Seq(Sounds),  \* in the order of last use
          channel : [Channel -> ChannelState],
          playing : [Buffers -> {"no", "once", "loop"}], live : SUBSET Buffers,
          active : Nat, refs : [Sounds -> Nat], total : Nat]

SoundTypeOK ==
    /\ mixer \in Mixer /\ IsInjective(mixer.cache)
    /\ mixer.total <= capacity /\ capacity \in Capacities
    /\ scheduled \in Seq([sound : Sounds, ticks : Nat]) /\ Len(scheduled) <= MaxQueued
    /\ handle \in [Noisy -> Channel \union {None}]
    /\ wanted \in [Noisy -> Sounds \union {NoSound}]
    /\ alive \in [Noisy -> {"ticks", "killed", "gone"}]
    /\ {muted, paused, suspended} \subseteq BOOLEAN

SoundInit ==
    /\ mixer = [cache |-> <<>>, channel |-> [i \in Channel |-> Free],
                playing |-> [b \in Buffers |-> "no"], live |-> {}, active |-> 0,
                refs |-> [s \in Sounds |-> 0], total |-> 0]
    /\ capacity \in Capacities /\ scheduled = <<>>
    /\ handle = [x \in Noisy |-> None] /\ wanted = [x \in Noisy |-> NoSound]
    /\ alive = [x \in Noisy |-> "ticks"]
    /\ muted = FALSE /\ paused = FALSE /\ suspended = FALSE

-----------------------------------------------------------------------------
(* The manager: each function as what it makes of the mixer                 *)

\* stop_channel of each of S, one after the other: what a channel that is off still
\* holds is not read again
Stopped(m, S) ==
    LET off == S \cap On(m) IN
    [cache |-> m.cache, total |-> m.total,
     channel |-> [i \in Channel |-> IF i \in off THEN Free ELSE m.channel[i]],
     playing |-> [b \in Buffers |-> IF \E i \in off : Voice(m, i) = b THEN "no"
                                     ELSE m.playing[b]],
     live |-> m.live \ {Voice(m, i) : i \in {k \in off : m.channel[k].copy}},
     active |-> m.active - Cardinality(off),
     refs |-> [s \in Sounds |-> m.refs[s] - Cardinality({i \in off : m.channel[i].sound = s
                                                                     /\ m.channel[i].copy})]]
StopChannel(m, i) == Stopped(m, {i})

\* stop_all_sounds also forgets the queue
StopAll(m) == Stopped(m, Channel)

\* variant: the channels that still hold the entry's own buffer go on
DestroyedUnderChannel(m, s) == [m EXCEPT !.live = @ \ {Entry(s)}]
\* destroy_cached_sound: the channels of its copies and of its buffer are stopped
Destroyed(m, s) ==
    LET k == Stopped(m, {i \in On(m) : m.channel[i].sound = s})
    IN  [k EXCEPT !.live = @ \ {Entry(s)}]
Evicted(m, s) == [Destroyed(m, s) EXCEPT !.cache = Without(@, {s}),
                                         !.total = @ - 1]

\* the places in the cache of what may go
Evictable(m) ==
    {i \in DOMAIN m.cache : m.refs[m.cache[i]] = 0 /\ m.playing[Entry(m.cache[i])] = "no"}
HasRoom(m) == m.total + 1 <= capacity
\* ensure_sound_cache_capacity: the least recently used goes until the new one fits;
\* those that went are gone also if it does not fit in the end
MadeRoom(m) ==
    LET room[k \in 0 .. Len(m.cache)] ==
          IF k = 0 THEN m
          ELSE IF HasRoom(room[k - 1]) \/ Evictable(room[k - 1]) = {} THEN room[k - 1]
          ELSE Evicted(room[k - 1], room[k - 1].cache[Min(Evictable(room[k - 1]))])
    IN  IF capacity < 1 THEN m ELSE room[Len(m.cache)]

\* find_or_load_cache_entry
Found(m, s, loads) ==
    IF s \in ToSet(m.cache)
    THEN [m EXCEPT !.cache = Append(Without(@, {s}), s)]
    ELSE LET k == MadeRoom(m) IN
         IF HasRoom(k) /\ loads
         THEN [k EXCEPT !.cache = Append(@, s), !.total = @ + 1, !.live = @ \union {Entry(s)}]
         ELSE k

\* start_channel: on the first channel that is off; plays tells whether DirectSound
\* could copy and play the buffer
Started(m, s, by, plays) ==
    IF s \notin ToSet(m.cache) \/ m.active >= Channels \/ ~plays THEN [to |-> None, m |-> m]
    ELSE LET i == Min(Channel \ On(m))
             copy == m.playing[Entry(s)] # "no"
             k == [m EXCEPT !.channel[i] = [Free EXCEPT !.on = TRUE, !.sound = s,
                                                        !.copy = copy, !.by = by],
                            !.active = @ + 1, !.refs[s] = IF copy THEN @ + 1 ELSE @]
         IN  [to |-> i, m |-> [k EXCEPT !.live = @ \union {Voice(k, i)},
                                        !.playing[Voice(k, i)] =
                                            IF by # NoObject /\ s \in Loops THEN "loop" ELSE "once"]]

\* stop_continuous_sound
StopContinuous(m, i, fades) ==
    IF suspended \/ i \notin On(m) THEN m
    ELSE LET k == [m EXCEPT !.channel[i].kept = FALSE]
         IN  IF fades THEN [k EXCEPT !.channel[i].fade = FadeUpdates] ELSE StopChannel(k, i)

\* update(): the queue from its end, then each channel in turn
QueuePlayed(m, loads, plays) ==
    LET played[k \in 0 .. Len(scheduled)] ==
          IF k = 0 THEN m
          ELSE LET e == scheduled[Len(scheduled) + 1 - k] IN
               IF e.ticks > 0 \/ suspended THEN played[k - 1]
               ELSE Started(Found(played[k - 1], e.sound, loads), e.sound, NoObject, plays).m
    IN  played[Len(scheduled)]
QueueTicked ==
    Without([k \in DOMAIN scheduled |-> [scheduled[k] EXCEPT !.ticks = @ - 1]],
            [sound : Sounds, ticks : {-1}])
ChannelUpdated(m, i) ==
    LET c == m.channel[i]
        plays == m.playing[Voice(m, i)] # "no"
    IN  IF c.on /\ ((~plays /\ ~c.kept) \/ (plays /\ c.fade = 1)) THEN StopChannel(m, i)
        ELSE IF c.on /\ plays /\ c.fade > 1 THEN [m EXCEPT !.channel[i].fade = @ - 1]
        ELSE m
ChannelsUpdated(m) ==
    LET updated[i \in 0 .. Channels] ==
          IF i = 0 THEN m ELSE ChannelUpdated(updated[i - 1], i)
    IN  updated[Channels]

-----------------------------------------------------------------------------
(* Calls and what the platform does                                         *)
Idle == UNCHANGED <<capacity, alive, muted, paused, suspended>>
Here(x) == alive[x] # "gone"
Hears == ~muted /\ ~suspended

Update(loads, plays) ==
    /\ ~paused
    /\ mixer' = ChannelsUpdated(QueuePlayed(mixer, loads, plays)) /\ scheduled' = QueueTicked
    /\ Idle /\ UNCHANGED noisyVars

Ends(b) == \* a buffer comes to its end
    /\ mixer.playing[b] = "once"
    /\ mixer' = [mixer EXCEPT !.playing[b] = "no"]
    /\ Idle /\ UNCHANGED <<scheduled, noisyVars>>

Play(s, loads, plays) == \* snde
    /\ Hears
    /\ mixer' = Started(Found(mixer, s, loads), s, NoObject, plays).m
    /\ Idle /\ UNCHANGED <<scheduled, noisyVars>>

Queue(s, loads) == \* sndq
    /\ Hears /\ Len(scheduled) < MaxQueued
    /\ mixer' = Found(mixer, s, loads)
    /\ scheduled' = IF s \in ToSet(mixer'.cache) THEN Append(scheduled, [sound |-> s, ticks |-> 1])
                    ELSE scheduled
    /\ Idle /\ UNCHANGED noisyVars

\* A kept sound starts for x; `to` is its channel or None.
Keeps(x, s, loads, plays) == Started(Found(mixer, s, loads), s, x, plays)
Kept(r) == [r.m EXCEPT !.channel[r.to].kept = TRUE]

Replaced(m, x) == StopContinuous(m, handle[x], TRUE)

SetSound(x, s, near, loads, plays) == \* sndc, sndl
    /\ Here(x) /\ ~muted
    /\ \/ /\ near /\ ~suspended
          /\ LET r == Keeps(x, s, loads, plays) IN
             IF r.to = None THEN mixer' = r.m /\ UNCHANGED <<handle, wanted>>
             ELSE /\ mixer' = Replaced(Kept(r), x)
                  /\ handle' = [handle EXCEPT ![x] = r.to]
                  /\ wanted' = [wanted EXCEPT ![x] = s]
       \/ /\ ~near /\ s \in Loops
          /\ mixer' = Replaced(mixer, x)
          /\ handle' = [handle EXCEPT ![x] = None]
          /\ wanted' = [wanted EXCEPT ![x] = s]
    /\ Idle /\ UNCHANGED scheduled

Quiet(x, fades) == \* fade, stpc
    /\ Here(x)
    /\ mixer' = StopContinuous(mixer, handle[x], fades)
    /\ handle' = [handle EXCEPT ![x] = None] /\ wanted' = [wanted EXCEPT ![x] = NoSound]
    /\ Idle /\ UNCHANGED scheduled

UpdateSound(x, near, loads, plays) == \* once a tick, while x ticks
    /\ alive[x] = "ticks" /\ ~paused /\ wanted[x] # NoSound
    /\ \/ /\ handle[x] = None /\ near /\ Hears
          /\ LET r == Keeps(x, wanted[x], loads, plays) IN
             IF r.to = None THEN mixer' = r.m /\ UNCHANGED handle
             ELSE mixer' = Kept(r) /\ handle' = [handle EXCEPT ![x] = r.to]
          /\ UNCHANGED wanted
       \/ /\ handle[x] # None
          /\ LET i == handle[x]
                 plays_on == ~suspended /\ mixer.channel[i].on
                             /\ mixer.playing[Voice(mixer, i)] # "no"
             IN  IF plays_on /\ near THEN UNCHANGED <<mixer, handle, wanted>>
                 ELSE /\ mixer' = StopContinuous(mixer, i, FALSE)
                      /\ handle' = [handle EXCEPT ![x] = None]
                      /\ wanted' = [wanted EXCEPT ![x] = IF plays_on /\ wanted[x] \in Loops THEN @
                                                         ELSE NoSound]
    /\ Idle /\ UNCHANGED scheduled

Park(x) == \* parked until the next save, and not ticked; its sound goes on
    /\ alive[x] = "ticks" /\ alive' = [alive EXCEPT ![x] = "killed"]
    /\ UNCHANGED <<mixer, capacity, scheduled, handle, wanted, muted, paused, suspended>>

Silenced(x) == StopContinuous(mixer, handle[x], FALSE)
Destroy(x) == \* ~Object
    /\ Here(x) /\ mixer' = Silenced(x)
    /\ alive' = [alive EXCEPT ![x] = "gone"] /\ handle' = [handle EXCEPT ![x] = None]
    /\ wanted' = [wanted EXCEPT ![x] = NoSound]
    /\ UNCHANGED <<capacity, scheduled, muted, paused, suspended>>

\* release_all_object_sound_channels; variants: the objects keep their channels,
\* or forget their loops too
ReleaseNone == UNCHANGED <<handle, wanted>>
ReleaseForgets == /\ handle' = [x \in Noisy |-> None]
                  /\ wanted' = [x \in Noisy |-> NoSound]
Release == /\ handle' = [x \in Noisy |-> None]
           /\ wanted' = [x \in Noisy |-> IF wanted[x] \in Loops THEN wanted[x]
                                           ELSE NoSound]
Silence == mixer' = StopAll(mixer) /\ scheduled' = <<>>

ToggleMute ==
    /\ muted' = ~muted
    /\ IF muted THEN UNCHANGED <<mixer, scheduled, handle, wanted>>
       ELSE Release /\ Silence
    /\ UNCHANGED <<capacity, alive, paused, suspended>>

TogglePause == \* service_world_update_timer, arm_world_update_timer
    /\ paused' = ~paused
    /\ IF paused THEN UNCHANGED <<mixer, scheduled, handle, wanted>>
       ELSE Release /\ Silence
    /\ UNCHANGED <<capacity, alive, muted, suspended>>

\* suspend_mixer and restore_mixer: the focus leaves the window and comes back, and
\* the commands of sndf
ToggleSuspend ==
    /\ suspended' = ~suspended
    /\ IF suspended THEN UNCHANGED <<mixer, scheduled, handle, wanted>>
       ELSE Release /\ Silence
    /\ UNCHANGED <<capacity, alive, muted, paused>>

SoundNext ==
    \/ \E loads, plays \in BOOLEAN :
          /\ loads \/ plays \* what neither loads nor plays is like one that does not play
          /\ \/ Update(loads, plays)
             \/ \E s \in Sounds : Play(s, loads, plays) \/ Queue(s, loads)
             \/ \E x \in Noisy, near \in BOOLEAN :
                   \/ UpdateSound(x, near, loads, plays)
                   \/ \E s \in Sounds : SetSound(x, s, near, loads, plays)
    \/ \E b \in Buffers : Ends(b)
    \/ \E x \in Noisy : Park(x) \/ Destroy(x) \/ \E fades \in BOOLEAN : Quiet(x, fades)
    \/ ToggleMute \/ TogglePause \/ ToggleSuspend

SoundSpec == SoundInit /\ [][SoundNext]_soundVars

-----------------------------------------------------------------------------
(* What the manager counts by hand is what its channels do: channels that are *)
(* on, copies of an entry, bytes in the cache.                               *)
CountsMatch ==
    /\ mixer.active = Cardinality(On(mixer)) /\ mixer.total = Len(mixer.cache)
    /\ \A s \in Sounds : mixer.refs[s] =
          Cardinality({i \in On(mixer) : mixer.channel[i].sound = s /\ mixer.channel[i].copy})

(* No channel plays through a buffer that was released, and no copy outlives *)
(* its channel.                                                              *)
VoicesLive ==
    mixer.live = {Voice(mixer, i) : i \in On(mixer)} \union {Entry(s) : s \in ToSet(mixer.cache)}

(* A sound that goes on belongs to an object that can stop it: none plays for *)
(* ever after its object went, changed its sound or was silenced.            *)
NoOrphanSound ==
    \A i \in On(mixer) : mixer.channel[i].kept => \E x \in Noisy : handle[x] = i

(* With a cache too small for the sounds, an eviction takes the channel of a *)
(* sound that has just come to its end, and another sound has it before the  *)
(* object looks: the next two are claimed of a cache that is large enough.   *)
Roomy == capacity >= Cardinality(Sounds)

(* An object's channel plays the object's own sound: it never turns down or  *)
(* stops another's.                                                          *)
OwnChannel ==
    Roomy => \A x \in Noisy : handle[x] # None =>
        mixer.channel[handle[x]].by = x /\ mixer.channel[handle[x]].sound = wanted[x]

(* A sndl loop goes on until a script ends it: mute, pause, the focus and the *)
(* edge of the view only interrupt it.                                       *)
LoopSurvives ==
    [][Roomy => \A x \in Noisy : wanted[x] \in Loops /\ wanted'[x] # wanted[x] =>
          \/ \E fades \in BOOLEAN : Quiet(x, fades)
          \/ Destroy(x)
          \/ wanted'[x] # NoSound]_soundVars

\* The manager's counts, channels, copies and buffers agree, and whoever a sound
\* plays for is still there.
MixerSound == SoundTypeOK /\ CountsMatch /\ VoicesLive /\ NoOrphanSound
=============================================================================
