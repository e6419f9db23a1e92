--------------------------- MODULE MCTeamRuntime ---------------------------
(***************************************************************************)
(* Small instances of TeamRuntime.  Each scenario bounds what the          *)
(* environment does: messages and task events sent, user turns, lifecycle  *)
(* operations, processes lost, host calls lost, error events.              *)
(***************************************************************************)
EXTENDS TeamRuntime

CONSTANTS t1, t2, ann, bob, r1, r2, o1, o2, job

(* One team with one peer on one runtime, nothing going wrong. *)
Quiet == [teams |-> {t1}, peers |-> {ann}, runtimes |-> {r1}, tasks |-> {},
          messages |-> {<<Everyone, TRUE>>}, maxTurns |-> 2, sends |-> 1, users |-> 1,
          ops |-> {}, kinds |-> {}, downs |-> 0, lost |-> 0, errors |-> 0]

(* A process is lost, or stops, while members are worked on. *)
Takeover == [Quiet EXCEPT !.runtimes = {r1, r2}, !.downs = 1, !.ops = {o1},
                          !.kinds = {"remove", "delete", "resume"}]

(* A host call is lost and the team is changed and resumed. *)
Lossy == [Quiet EXCEPT !.lost = 1, !.ops = {o1, o2}, !.kinds = {"remove", "delete", "resume"}]

(* Two teams created from one user session, whose leads are woken in it. *)
Shared == [Quiet EXCEPT !.teams = {t1, t2}, !.sends = 2, !.users = 1]

(* A session error is reported, perhaps late, and users talk to peers too. *)
Errors == [Quiet EXCEPT !.errors = 1, !.users = 2, !.ops = {o1}, !.kinds = {"resume"}]

(* Shared work: offered, claimed, renewed, settled, lapsed, given up by leaving. *)
Work == [Quiet EXCEPT !.tasks = {job}, !.messages = {}, !.sends = 3, !.maxTurns = 3,
                      !.ops = {o1}, !.kinds = {"remove"}]

(* Two peers and the lead compete for two deliveries and a small budget. *)
Crowd == [Quiet EXCEPT !.peers = {ann, bob}, !.sends = 2, !.messages = {<<Everyone, TRUE>>, <<Lead, FALSE>>}]

RaceLimits == {Takeover, Lossy, Shared, Errors, Work, Crowd}

(* Progress without a resumption: a paused team stays paused. *)
Calm == [Quiet EXCEPT !.sends = 2, !.lost = 1, !.maxTurns = 3]
Handover == [Takeover EXCEPT !.kinds = {"remove", "delete"}]
ProgressLimits == {Calm, Handover}

(* The user talks to a peer between the end of its turn and the next look. *)
TalkLimits == {[Quiet EXCEPT !.users = 2]}
=============================================================================
