------------------------------ MODULE Playback ------------------------------
(***************************************************************************)
(* Animation::Impl (sg/src/Animation.cxx): the animations that were loaded *)
(* are played and stopped.  Each action looks up the pair of keyframes     *)
(* that the time is between and sets a property of its target, which is    *)
(* a mix of two outputs.                                                   *)
(***************************************************************************)
EXTENDS GltfLoader

CONSTANTS
  TimeOf(_),  \* the number that the bytes of an input are
  Ticks,      \* by how much time goes on between two calls
  MaxTime     \* bound: when the client plays no more

VARIABLES
  time, completed,  \* of each animation
  pose              \* what was set of each node: a pair <<node, type>>

playVars == <<time, completed, pose>>

ASSUME TicksAssumption == Ticks \subseteq Nat \ {0} /\ MaxTime \in Nat

-----------------------------------------------------------------------------
Timeline(anim, action) ==
  LET input == Item(anim.inputs, action.input)
  IN  [k \in DOMAIN input |-> TimeOf(input[k])]

(* The loop halves the range that starts as all of the timeline, and ends  *)
(* with the last `mid'; `end' is not included and indices are from 1.      *)
Search(input, tm) ==
  LET n == Len(input)
      found[size \in 0..n] ==   \* by the size of the range that begins at beg
        [beg \in 1..(n + 1 - size) |-> [mid \in 1..n |->
           IF size = 0 THEN mid
           ELSE LET m == (2 * beg + size) \div 2
                IN  IF input[m] < tm
                    THEN found[beg + size - (m + 1)][m + 1][m]
                    ELSE IF input[m] > tm THEN found[m - beg][beg][m]
                    ELSE m]]
  IN  found[n][1][1]

(* Mutant of Keyframes: the keyframe that the search ends with is taken to *)
(* be before the time, as it is when one has just the time.                *)
KeyframesFrom(input, tm) ==
  LET n == Len(input)
      mid == Search(input, tm)
  IN  IF input[1] > tm THEN <<1, 1>>
      ELSE IF input[n] < tm THEN <<n, n>>
      ELSE <<mid, mid + 1>>

Keyframes(input, tm) ==
  LET n == Len(input)
      mid == Search(input, tm)
  IN  IF input[1] > tm THEN <<1, 1>>
      ELSE IF input[n] < tm THEN <<n, n>>
      ELSE IF input[mid] > tm THEN <<mid - 1, mid>>
      ELSE <<mid, mid + 1>>

(* What a property can be: num/den of the way from one output to another.  *)
Mix(from, to, num, den) == [from |-> from, to |-> to, at |-> <<num, den>>]
Just(output) == Mix(output, output, 0, 1)
Undefined == Just(<<-1, 0>>)
Rest == Just(<<-1, 1>>)  \* as the node was

(* updateT, updateR and updateS.                                           *)
Updated(anim, action, tm) ==
  LET input == Timeline(anim, action)
      output == Item(anim.outputs[action.type], action.output)
      i == Keyframes(input, tm)[1]
      j == Keyframes(input, tm)[2]
  IN  IF i = j \/ j > Len(input) THEN Just(output[i])
      ELSE IF action.method = "Step"
      THEN Just(IF tm - input[i] < input[j] - tm THEN output[i] ELSE output[j])
      ELSE IF tm = input[i] THEN Just(output[i])
      ELSE Mix(output[i], output[j], tm - input[i], input[j] - input[i])

(* The time of the last keyframe is paired with what is behind it in       *)
(* memory: a step may go to it, and a mix has it multiplied by zero.       *)
Beyond(anim, action, tm) ==
  LET input == Timeline(anim, action) IN Keyframes(input, tm)[2] > Len(input)

-----------------------------------------------------------------------------
(* The actions that set a property; cubic interpolation does nothing.  The *)
(* last one has the final say.                                             *)
Setters(anim, key) ==
  {k \in DOMAIN anim.actions :
     /\ <<anim.actions[k].target, anim.actions[k].type>> = key
     /\ anim.actions[k].method # "Cubic"}
Setter(anim, key) == anim.actions[Max(Setters(anim, key))]

Ended(anim, tm) ==
  \A k \in DOMAIN anim.actions : Last(Timeline(anim, anim.actions[k])) <= tm

(* Animation::play, which does nothing if it is completed, and update.     *)
Play(a, tick) ==
  /\ load = "loaded" /\ ~completed[a]
  /\ time[a] + tick <= MaxTime
  /\ LET anim == coll.animations[a]
         tm == time[a] + tick
         set == {key \in DOMAIN pose : Setters(anim, key) # {}}
     IN  /\ time' = [time EXCEPT ![a] = tm]
         /\ completed' = [completed EXCEPT ![a] = Ended(anim, tm)]
         /\ \E bad \in SUBSET {key \in set :
                                Beyond(anim, Setter(anim, key), tm)} :
              pose' = [key \in DOMAIN pose |->
                         IF key \in bad THEN Undefined
                         ELSE IF key \in set
                         THEN Updated(anim, Setter(anim, key), tm)
                         ELSE pose[key]]
  /\ UNCHANGED allVars

(* Animation::stop.                                                        *)
Stop(a) ==
  /\ load = "loaded" /\ time[a] > 0
  /\ time' = [time EXCEPT ![a] = 0]
  /\ completed' = [completed EXCEPT ![a] = FALSE]
  /\ UNCHANGED <<pose, allVars>>

-----------------------------------------------------------------------------
PlayInit == LoaderInit /\ time = <<>> /\ completed = <<>> /\ pose = <<>>

Targets ==
  UNION {{<<coll.animations[a].actions[k].target,
            coll.animations[a].actions[k].type>> :
            k \in DOMAIN coll.animations[a].actions} :
         a \in DOMAIN coll.animations}

(* Animations are created with the time at zero.                           *)
LoaderStep ==
  /\ Next
  /\ IF load' = "loaded"
     THEN /\ time' = [a \in DOMAIN coll.animations |-> 0]
          /\ completed' = [a \in DOMAIN coll.animations |-> FALSE]
          /\ pose' = [key \in Targets |-> Rest]
     ELSE UNCHANGED playVars

PlaybackNext ==
  \/ LoaderStep
  \/ \E a \in DOMAIN time : Stop(a) \/ \E tick \in Ticks : Play(a, tick)

everyVar == <<allVars, playVars>>
PlaySpec ==
  PlayInit /\ [][PlaybackNext]_everyVar /\ WF_everyVar(LoaderStep)

-----------------------------------------------------------------------------
(* What an action makes of its target: the output of the first keyframe    *)
(* before it and of the last one after it; between two, the nearest one's, *)
(* the later of two as near, or the mix that is as far between them as the *)
(* time is.                                                                *)
Wanted(anim, action, tm) ==
  LET input == Timeline(anim, action)
      output == Item(anim.outputs[action.type], action.output)
      past == {k \in DOMAIN input : input[k] <= tm}
      i == Max(past)
  IN  IF past = {} THEN Just(output[1])
      ELSE IF past = DOMAIN input \/ input[i] = tm THEN Just(output[i])
      ELSE IF action.method = "Linear"
      THEN Mix(output[i], output[i + 1], tm - input[i], input[i + 1] - input[i])
      ELSE Just(output[IF 2 * tm < input[i] + input[i + 1] THEN i ELSE i + 1])

(* Animation::update: each property is what the keyframes around the time  *)
(* make it, and the animation is completed when every action is at its     *)
(* end, however often it was stopped and whatever the other animations     *)
(* did to the same nodes.  (The time of a last keyframe is excepted.)      *)
PlaysRight ==
  [][\A a \in DOMAIN time :
       load = "loaded" /\ time'[a] > time[a] =>
         LET anim == coll.animations[a]
             tm == time'[a]
         IN  /\ completed'[a] = Ended(anim, tm)
             /\ \A key \in DOMAIN pose :
                  IF Setters(anim, key) = {} THEN pose'[key] = pose[key]
                  ELSE \/ Last(Timeline(anim, Setter(anim, key))) = tm
                       \/ pose'[key] =
                            Wanted(anim, Setter(anim, key), tm)]_everyVar
=============================================================================
