------------------------------ MODULE EpdcShim ------------------------------
(***************************************************************************)
(* The commit path of the composer shim (src/epdcshim.c): what becomes of  *)
(* a frame between SurfaceFlinger's finishFrame and the buffer the e-ink   *)
(* driver drives the panel from.                                           *)
(*                                                                         *)
(* The damage mapping is the mailbox that DamageShm is shown to implement. *)
(* A frame is committed before the next one is composed, the composer ends *)
(* each request with a commit, and after a validation pass assembles anew. *)
(***************************************************************************)
EXTENDS PanelRects, SequencesExt

CONSTANTS
  Regions,        \* the dirty regions a frame may have, none empty
  IdleFrames,     \* whether SurfaceFlinger also commits when nothing changed
  Objects, Plane, \* the DRM objects of the composer; the one with the EPDC properties
  MaxObj,         \* MAX_OBJ, 32
  HashMod,        \* 2^32: the hash in last_fb_sig is a u32
  Recheck,        \* RECHECK, 30
  Settings,       \* the values the persist.epdcshim.* properties may have together
  MayFail,        \* whether a commit may fail
  LookupMayFail,  \* whether the enumeration of an object's properties may fail
  MaxFrames, MaxTime, MaxDrives   \* bounds on frames, clock and injections

\* wf is the quality waveform, and fastwf, if it is set, the one for a moving screen.
Setting == [enable: BOOLEAN, skipsame: BOOLEAN, interval: Nat, fullevery: Nat,
            upd: {0, 1}, fastwf: BOOLEAN, fastms: Nat]

ASSUME ShimAssumption ==
  /\ \A region \in Regions : region \in Seq(Rect)
  /\ Plane \in Objects /\ Objects \subseteq Nat \ {0}
  /\ MaxObj \in Nat \ {0} /\ HashMod \in Nat \ {0} /\ Recheck \in Nat \ {0}
  /\ Settings \subseteq Setting
  /\ {IdleFrames, MayFail, LookupMayFail} \subseteq BOOLEAN
  /\ MaxFrames \in Nat /\ MaxTime \in Nat \ {0} /\ MaxDrives \in Nat

VARIABLES
  posted, seen, verdict,   \* the mailbox
  frame,      \* for each pixel the number of the frame that drew it last
  fb,         \* the id of the framebuffer that holds the newest frame
  due,        \* whether the newest frame still has to be committed
  now,        \* the clock, from 1
  request,    \* the objects in the request the composer is assembling
  t, commits_since_recheck,          \* t_enable and so on
  attached,   \* g_dmg # 0
  pend,       \* pend, pend_fb, n_pend: the objects recorded, and their FB_ID
  cache,      \* c_obj and whether c_parms_prop and c_cnt_prop are known
  fbid_known, \* g_fbid_prop # 0
  last_fb_sig, last_inject, updates_since_full,
  update_marker,   \* of the last update injected
  ebc,        \* for each pixel the frame the driver's buffer shows there
  lost,       \* history: a frame went by without reaching the buffer
  rough,      \* history: updates of the panel since the last clean, while one is asked for
  missed      \* history: those of them made before a clean was due and did not come about

mailbox == <<posted, seen, verdict>>
sfVars  == <<frame, fb, due>>
policy  == <<last_fb_sig, last_inject, updates_since_full>>
drmVars == <<cache, fbid_known>>
panel   == <<update_marker, ebc, rough, missed>>
tunable == <<t, commits_since_recheck>>
vars == <<mailbox, sfVars, now, request, tunable, attached, pend, drmVars,
          policy, panel, lost>>

M == INSTANCE DamageMailbox WITH Damages <- {Publishable(g) : g \in Regions}

Defaults == [enable |-> TRUE, skipsame |-> TRUE, interval |-> 0, fullevery |-> 0,
             upd |-> 1, fastwf |-> FALSE, fastms |-> 250]

Init ==
  /\ M!Init
  /\ frame = [p \in Pixels |-> 0] /\ fb = 1 /\ due = FALSE
  /\ now = 1
  /\ request = {}
  /\ t = Defaults /\ commits_since_recheck = Recheck
  /\ attached = FALSE
  /\ pend = <<>> /\ cache = <<>> /\ fbid_known = FALSE
  /\ last_fb_sig = 0 /\ last_inject = 0 /\ updates_since_full = 0
  /\ update_marker = 0 /\ ebc = [p \in Pixels |-> 0]
  /\ lost = FALSE /\ rough = 0 /\ missed = 0

-----------------------------------------------------------------------------
(* The surroundings. Time passes between requests: the shim does not look at  *)
(* the clock before the commit.                                              *)

Tick ==
  /\ now < MaxTime /\ request = {}
  /\ now' = now + 1
  /\ UNCHANGED <<mailbox, sfVars, request, tunable, attached, pend, drmVars,
                 policy, panel, lost>>

\* epdcDamageMap, in the first finishFrame or never: its header asks for a full
\* pass.
MapDamage ==
  /\ posted.id = 0 /\ ~due
  /\ \A p \in Pixels : frame[p] = 0
  /\ M!Post(<<>>)
  /\ UNCHANGED <<sfVars, now, request, tunable, attached, pend, drmVars,
                 policy, panel, lost>>

\* finishFrame: the damage is published, then the frame is composed into the
\* other buffer, and its commit is due. A SurfaceFlinger without the mapping
\* composes all the same.
Compose(region) ==
  /\ ~due /\ request = {}
  /\ \A p \in Pixels : frame[p] < MaxFrames
  /\ frame' = [p \in Pixels |-> IF p \in CoveredBy(region)
                                THEN Max({frame[q] : q \in Pixels}) + 1 ELSE frame[p]]
  /\ fb' = 3 - fb
  /\ due' = TRUE
  /\ IF posted.id = 0 THEN UNCHANGED mailbox ELSE M!Post(Publishable(region))
  /\ UNCHANGED <<now, request, tunable, attached, pend, drmVars,
                 policy, panel, lost>>

\* The same with nothing dirty: the buffer is reused, the empty region published.
ComposeIdle ==
  /\ IdleFrames
  /\ ~due /\ request = {}
  /\ posted.id \in 1 .. MaxFrames
  /\ due' = TRUE
  /\ M!Post(Publishable(<<>>))
  /\ UNCHANGED <<frame, fb, now, request, tunable, attached, pend, drmVars,
                 policy, panel, lost>>

-----------------------------------------------------------------------------
(* drmModeAtomicAddProperty. *)

Slot(o) == {i \in DOMAIN pend : pend[i].obj = o}

\* Mutant: the object is not looked for among those recorded already.
RecordAgain(o) ==
  LET id == IF o = Plane /\ fbid_known THEN fb ELSE 0
  IN  pend' = Append(pend, [obj |-> o, fb |-> id])

\* Records the object, and the framebuffer if the property is FB_ID.
Record(o) ==
  LET id == IF o = Plane /\ fbid_known THEN fb ELSE 0
  IN  pend' = IF Slot(o) # {}
              THEN [i \in DOMAIN pend |->
                      IF i \in Slot(o) /\ id # 0 THEN [obj |-> o, fb |-> id] ELSE pend[i]]
              ELSE IF Len(pend) < MaxObj THEN Append(pend, [obj |-> o, fb |-> id])
                                         ELSE pend

\* The composer sets several properties of an object, FB_ID among the plane's.
AddProperty(o) ==
  /\ request' = request \cup {o}
  /\ Record(o)
  /\ UNCHANGED <<mailbox, sfVars, now, tunable, attached, drmVars,
                 policy, panel, lost>>

-----------------------------------------------------------------------------
(* drmModeAtomicCommit. *)

\* Every Recheck commits the properties are read again, and may have any values.
RefreshTunables ==
  IF commits_since_recheck + 1 < Recheck
  THEN /\ commits_since_recheck' = commits_since_recheck + 1
       /\ UNCHANGED t
  ELSE /\ commits_since_recheck' = 0
       /\ t' \in Settings

\* Mutant: n_pend is left as it is.
TestOnlyKeepsPend ==
  /\ request # {}
  /\ RefreshTunables
  /\ request' = {}
  /\ UNCHANGED <<mailbox, sfVars, now, attached, pend, drmVars, policy, panel, lost>>

\* A validation pass must not drive the panel.
TestOnly ==
  /\ request # {}
  /\ RefreshTunables
  /\ pend' = <<>>
  /\ request' = {}
  /\ UNCHANGED <<mailbox, sfVars, now, attached, drmVars, policy, panel, lost>>

\* attach_damage, which may fail and is retried, and read_damage.
ReadDamage ==
  /\ attached' \in {attached, posted.id > 0}
  /\ attached => attached'
  /\ \/ M!GiveUp
     \/ attached' /\ M!Take

\* The objects of a request and their framebuffers, hashed one by one.
Hash(q) ==
  LET sig[n \in 0 .. Len(q)] ==
        IF n = 0 THEN 0 ELSE (sig[n-1] * 31 + q[n].obj * 131 + q[n].fb) % HashMod
  IN  sig[Len(q)]

Signature == Hash(pend)

\* Mutant: read_damage says "not changed" when it gave up.
NothingNewUnlessRead ==
  IF attached' THEN verdict'.kind # "new"
  ELSE t'.skipsame /\ fbid_known /\ Signature = last_fb_sig

\* Nothing new: by the sequence number if there is one, else by the buffers.
NothingNew ==
  IF attached' THEN verdict'.kind = "unchanged"
  ELSE t'.skipsame /\ fbid_known /\ Signature = last_fb_sig

\* What HashTells is about, the requests of a composer whose FB_ID property is known:
\* each names an object once, and a framebuffer for the plane alone.
Requests ==
  {q \in UNION {[1 .. n -> [obj: Objects, fb: 0 .. 2]] : n \in 0 .. MaxObj} :
     /\ IsInjective([i \in DOMAIN q |-> q[i].obj])
     /\ \A i \in DOMAIN q : q[i].fb # 0 <=> q[i].obj = Plane}

Shows(q, id) == \E i \in DOMAIN q : q[i] = [obj |-> Plane, fb |-> id]

\* The hash tells a request for one framebuffer from every other, and from none.
HashTells ==
  \A q \in Requests, id \in {1, 2} : Shows(q, id) =>
    /\ Hash(q) # 0
    /\ \A p \in Requests : Hash(p) = Hash(q) => Shows(p, id)

RememberSignature ==
  last_fb_sig' = IF ~attached' /\ t'.skipsame /\ fbid_known THEN Signature ELSE last_fb_sig

SinceInject == IF last_inject = 0 THEN -1 ELSE now - last_inject

Throttled == t'.interval > 0 /\ SinceInject >= 0 /\ SinceInject < t'.interval

\* Mutant: one update more between two cleans.
CleanDueLate == t'.fullevery > 0 /\ updates_since_full + 1 > t'.fullevery

\* The periodic clean of init_parms: a full flash in the quality waveform.
CleanDue == t'.fullevery > 0 /\ updates_since_full + 1 >= t'.fullevery

CountUpdate ==
  updates_since_full' = IF CleanDue THEN 0
                        ELSE IF t'.fullevery > 0 THEN updates_since_full + 1
                        ELSE updates_since_full

\* Mutant: the damage of a read that gave up counts as no damage to refresh.
NewRectsUnlessUnknown ==
  IF verdict'.kind = "unknown" /\ attached' THEN verdict'.rects
  ELSE UpdateRects(verdict'.rects, verdict'.full = 1 \/ CleanDue)

\* What init_parms puts in g_parms: the rectangles, and how they are driven.
NewRects == UpdateRects(verdict'.rects, verdict'.full = 1 \/ CleanDue)

Moving == t'.fastwf /\ SinceInject >= 0 /\ SinceInject < t'.fastms

Drive ==
  [wf  |-> IF Moving /\ ~CleanDue THEN "fast" ELSE "quality",
   upd |-> IF CleanDue THEN 1 ELSE t'.upd]

Cleans == NewRects = <<FullPanel>> /\ Drive = [wf |-> "quality", upd |-> 1]

Known(c) == {c[i].obj : i \in DOMAIN c}

\* lookup, for each recorded object in turn: an object not seen before is entered
\* in the cache, as one that has the properties or as one that has not, and for good
\* even when the enumeration of its properties failed.
Looked(answers) ==
  LET After[n \in 0 .. Len(pend)] ==
        IF n = 0 THEN cache
        ELSE IF pend[n].obj \in Known(After[n-1]) \/ Len(After[n-1]) >= MaxObj THEN After[n-1]
        ELSE Append(After[n-1], [obj |-> pend[n].obj, epdc |-> answers /\ pend[n].obj = Plane])
  IN  After[Len(pend)]

LookUpAll ==
  \E answers \in BOOLEAN :
    /\ answers \/ LookupMayFail
    /\ cache' = Looked(answers)
    /\ fbid_known' = (fbid_known \/ (answers /\ Plane \in Known(cache') \ Known(cache)))

Injected == {o \in {pend[i].obj : i \in DOMAIN pend} : [obj |-> o, epdc |-> TRUE] \in ToSet(cache')}

\* The driver copies the pixels inside the update's rectangles, if the commit succeeds
\* and its request names the plane.
Apply(rects, ok) ==
  ebc' = [p \in Pixels |-> IF ok /\ Plane \in Injected /\ p \in CoveredBy(rects)
                           THEN frame[p] ELSE ebc[p]]

\* What that leaves on the panel. The shim counts an update, and a clean, before it
\* knows whether there will be one.
Residue(ok) ==
  LET driven == ok /\ Plane \in Injected
  IN  /\ rough'  = IF driven /\ Cleans THEN 0
                   ELSE IF driven /\ t'.fullevery > 0 THEN rough + 1 ELSE rough
      /\ missed' = IF driven /\ Cleans THEN 0
                   ELSE IF CleanDue /\ ~driven THEN rough ELSE missed

CommitBegins ==
  /\ request # {}
  /\ due => Plane \in request
  /\ RefreshTunables

CommitEnds ==
  /\ pend' = <<>> /\ request' = {} /\ due' = FALSE
  /\ UNCHANGED <<frame, fb, now>>

CommitDisabled ==
  /\ CommitBegins
  /\ ~t'.enable
  /\ lost' = (lost \/ due)
  /\ CommitEnds
  /\ UNCHANGED <<mailbox, attached, drmVars, policy, panel>>

CommitNothingNew ==
  /\ CommitBegins
  /\ t'.enable /\ ReadDamage
  /\ NothingNew
  /\ CommitEnds
  /\ UNCHANGED <<drmVars, policy, panel, lost>>

CommitThrottled ==
  /\ CommitBegins
  /\ t'.enable /\ ReadDamage
  /\ ~NothingNew /\ RememberSignature
  /\ Throttled
  /\ lost' = (lost \/ due)
  /\ CommitEnds
  /\ UNCHANGED <<drmVars, last_inject, updates_since_full, panel>>

CommitInjects(ok) ==
  /\ update_marker < MaxDrives
  /\ CommitBegins
  /\ t'.enable /\ ReadDamage
  /\ ~NothingNew /\ RememberSignature
  /\ ~Throttled
  /\ last_inject' = now
  /\ CountUpdate
  /\ LookUpAll
  /\ update_marker' = update_marker + 1
  /\ Apply(NewRects, ok)
  /\ lost' = IF ok /\ Plane \in Injected /\ NewRects = <<FullPanel>> THEN FALSE
             ELSE lost \/ (due /\ ~ok)
  /\ Residue(ok)
  /\ CommitEnds

Next ==
  \/ Tick
  \/ MapDamage
  \/ \E region \in Regions : Compose(region)
  \/ ComposeIdle
  \/ \E o \in Objects : AddProperty(o)
  \/ TestOnly
  \/ CommitDisabled
  \/ CommitNothingNew
  \/ CommitThrottled
  \/ CommitInjects(TRUE)
  \/ MayFail /\ CommitInjects(FALSE)

Spec == Init /\ [][Next]_vars

-----------------------------------------------------------------------------
\* Every variable has its type; the arrays stay within MAX_OBJ entries and name no
\* object twice.
TypeOK ==
  /\ posted \in [id: Nat, rects: Seq(Rect)] /\ seen \in 0 .. posted.id
  /\ verdict \in [kind: {"unknown", "unchanged", "new"}, full: {0, 1}, rects: Seq(Rect)]
  /\ frame \in [Pixels -> Nat] /\ ebc \in [Pixels -> Nat] /\ fb \in {1, 2} /\ due \in BOOLEAN
  /\ now \in 1 .. MaxTime /\ t \in Setting /\ lost \in BOOLEAN
  /\ request \subseteq Objects
  /\ commits_since_recheck \in 0 .. Recheck
  /\ attached \in BOOLEAN /\ fbid_known \in BOOLEAN
  /\ pend \in Seq([obj: Objects, fb: 0 .. 2]) /\ Len(pend) <= MaxObj
  /\ cache \in Seq([obj: Objects, epdc: BOOLEAN]) /\ Len(cache) <= MaxObj
  /\ \A q \in {pend, cache} : IsInjective([i \in DOMAIN q |-> q[i].obj])
  /\ last_fb_sig \in 0 .. HashMod - 1 /\ last_inject \in 0 .. now
  /\ updates_since_full \in Nat /\ rough \in Nat /\ missed \in 0 .. rough
  /\ update_marker \in 0 .. MaxDrives

\* Once the commit of a frame is through, the driver's buffer holds that frame,
\* pixel by pixel, from the last full refresh on, unless a commit was let through
\* on purpose or failed: validation passes, commits of other objects, reads that
\* gave up, attaching late, and skipping what is not new lose nothing.
BufferIsFrame == ~due /\ ~lost => ebc = frame

\* "At commit time we only touch those" objects the composer put in the request
\* (HOW IT PICKS THE PLANE, src/epdcshim.c).
TouchesOnlyRequested ==
  [][ update_marker' # update_marker => Injected \subseteq request ]_vars

\* "Every N updates do one full-flash pass to clear the panel", however fullevery is
\* changed: of no N updates in a row made while it asks for a clean does every one leave
\* out a part of the panel, or drive it in the fast waveform or without a flash. The
\* count starts anew with a clean that was due and was lost with its commit, and stands
\* still while fullevery is 0.
CleanInTime ==
  [][ update_marker' # update_marker /\ t'.fullevery > 0 => rough' - missed' < t'.fullevery ]_vars

\* The same with no allowance for a clean that was lost.
CleanMadeUp ==
  [][ update_marker' # update_marker /\ t'.fullevery > 0 => rough' < t'.fullevery ]_vars

\* Damage that read_damage has marked as seen is in the driver's buffer once the
\* commit is through ("a dropped one leaves stale pixels", docs/11).
SeenIsInBuffer == ~due /\ attached /\ seen = posted.id => ebc = frame

\* A read that found a new publication drives the panel only if there is something
\* new to show ("the panel must not be driven at all", src/epdc_damage.h).
IdleIsQuiet ==
  [][ update_marker' # update_marker /\ seen # 0 /\ verdict'.kind = "new" => ebc # frame ]_vars

=============================================================================
