---------------------------- MODULE AudioControl ----------------------------
(***************************************************************************)
(* What the player reads from a WAV file and writes to the registers of    *)
(* the card: readWavHead of user/wav.c, apSetVolume, apSetSpeed and        *)
(* updateSampleRate of user/aplaycore.c, and the calls setVolume,          *)
(* getVolume and setSampleRate of kernel/sound_card.c and kernel/pci.c.    *)
(* AudioPlayer has what the same commands do to the reader and the queue.  *)
(***************************************************************************)
EXTENDS Integers, FiniteSets

CONSTANTS
  Offsets,      \* offsets of the 44-byte buffer where a mark may stand
  Rates,        \* sample rates of files
  Speeds,       \* arguments of speed, in halves
  MaxRate,      \* the largest value of a register (65535)
  MaxVolume,    \* apinfo->maxVolume
  Volumes,      \* arguments of volume
  MaxCommands   \* bound: commands given

ASSUME ControlAssumption ==
  /\ Offsets \subseteq 0 .. 40 /\ \A a, b \in Offsets : a < b => b - a >= 4
  /\ {MaxRate, MaxVolume} \subseteq Nat \ {0} /\ MaxCommands \in Nat
  /\ Rates \cup Volumes \cup Speeds \subseteq Nat

HEAD_LENGTH == 44
MIN_VOLUME == 31
MUTE_VOLUME == 32768

VARIABLES
  mark,            \* header of the open file: the mark at each of Offsets, and
  song,            \* its sample rate and channels
  hasOpened, speed,
  rateReg, volReg, \* the registers of the card
  volume,          \* apinfo->volume
  asked,           \* the last volume and the last speed that were accepted
  cmds

controlVars == <<mark, song, hasOpened, speed, rateReg, volReg, volume, asked, cmds>>

(* A loop of readWavHead: the end of the first mark m at pos or behind it. *)
Behind(h, m, pos) ==
  LET found == {a \in Offsets : a >= pos /\ h[a] = m} IN
  IF pos >= HEAD_LENGTH THEN pos
  ELSE IF found = {} THEN HEAD_LENGTH
  ELSE 4 + CHOOSE a \in found : \A b \in found : a <= b

(* Mutant of readWavHead: start_pos is not tested.                         *)
AnyHeader(h, n) == n > 0

(* readWavHead, after read returned n; h is the buffer.                    *)
readWavHead(h, n) ==
  LET format == Behind(h, "RIFF", 0) + 4 + 4
      fields == Behind(h, "fmt", format)
      data == Behind(h, "data", fields + 20)
  IN n > 0 /\ data + 4 = HEAD_LENGTH

(* sys_getVolume and sys_setVolume.                                        *)
getVolume(reg) ==
  IF reg >= MUTE_VOLUME THEN 0 ELSE ((MIN_VOLUME - (reg % 32)) * MaxVolume) \div MIN_VOLUME

setVolume(v) ==
  IF v = 0 THEN MUTE_VOLUME
  ELSE LET a == MIN_VOLUME - ((v * MIN_VOLUME) \div MaxVolume) IN a + a * 256

(* The rate for a speed, and what 16 bits keep of it.                      *)
Rate(f, s) == (f.rate * s * f.channels) \div (2 * 2)
set_sample_rate(f, s) == rateReg' = Rate(f, s) % (MaxRate + 1)

(* The command open, which closes the file that is open first (aplay.c).   *)
(* What a short file does not fill of the buffer is left from before.      *)
apOpenAudio ==
  /\ cmds < MaxCommands /\ cmds' = cmds + 1
  /\ \E n \in {0, HEAD_LENGTH}, h \in [Offsets -> {"RIFF", "fmt", "data", "other"}],
       f \in [rate : Rates, channels : 1 .. 2] :
       IF readWavHead(h, n)
         THEN /\ hasOpened' = TRUE /\ speed' = 2 /\ volume' = getVolume(volReg)
              /\ mark' = h /\ song' = f
              /\ asked' = [asked EXCEPT !.speed = 0] /\ set_sample_rate(f, 2)
         ELSE hasOpened' = FALSE /\ UNCHANGED <<mark, song, speed, rateReg, volume, asked>>
  /\ UNCHANGED volReg

apSetVolume(v) ==
  /\ cmds < MaxCommands /\ cmds' = cmds + 1
  /\ IF v <= MaxVolume
       THEN /\ volReg' = setVolume(v) /\ volume' = getVolume(setVolume(v))
            /\ asked' = [asked EXCEPT !.volume = v]
       ELSE UNCHANGED <<volReg, volume, asked>>
  /\ UNCHANGED <<mark, song, hasOpened, speed, rateReg>>

(* Mutant of apSetSpeed: the rate is not compared with the largest one.    *)
AnySpeed(s) ==
  /\ cmds < MaxCommands /\ cmds' = cmds + 1 /\ hasOpened /\ s > 0
  /\ speed' = s /\ set_sample_rate(song, s) /\ asked' = [asked EXCEPT !.speed = s]
  /\ UNCHANGED <<mark, song, hasOpened, volReg, volume>>

apSetSpeed(s) ==
  /\ cmds < MaxCommands /\ cmds' = cmds + 1 /\ hasOpened
  /\ IF s = 0 \/ Rate(song, s) > MaxRate
       THEN UNCHANGED <<speed, rateReg, asked>>
       ELSE speed' = s /\ set_sample_rate(song, s) /\ asked' = [asked EXCEPT !.speed = s]
  /\ UNCHANGED <<mark, song, hasOpened, volReg, volume>>

(* sound_card_init sets the volume register to 0x808.                      *)
ControlInit ==
  /\ mark = [a \in Offsets |-> "other"] /\ song = [rate |-> 0, channels |-> 1]
  /\ hasOpened = FALSE /\ speed = 2 /\ rateReg = 0 /\ cmds = 0
  /\ volReg = 8 + 8 * 256 /\ volume = getVolume(volReg)
  /\ asked = [volume |-> volume, speed |-> 0]

ControlNext ==
  apOpenAudio \/ (\E v \in Volumes : apSetVolume(v)) \/ (\E s \in Speeds : apSetSpeed(s))

ControlSpec == ControlInit /\ [][ControlNext]_controlVars

----------------------------------------------------------------------------
(* readWavHead accepts only headers with the marks at 0, 12 and 36:        *)
(* the three searches and the test of start_pos leave no other layout, so  *)
(* the fields are read where they stand and none comes from behind the     *)
(* buffer.  A header with another chunk before the data is refused.        *)
HeaderRight ==
  hasOpened => mark[0] = "RIFF" /\ mark[12] = "fmt" /\ mark[36] = "data"

(* What the user set is what the card plays with.  The volume shown is     *)
(* never above the one asked for, and less than one step of the card,      *)
(* MaxVolume \div 31 and the rounding, below it; muting is exact, and a    *)
(* volume other than 0 never mutes; both channels agree.  A speed that was *)
(* accepted is not cut off by the 16 bits of the rate register.            *)
SettingsKept ==
  /\ volume = getVolume(volReg) /\ volume <= asked.volume
  /\ (asked.volume - volume) * MIN_VOLUME < MaxVolume + MIN_VOLUME
  /\ volReg = MUTE_VOLUME <=> asked.volume = 0
  /\ volReg # MUTE_VOLUME => volReg % 256 = volReg \div 256 /\ volReg % 256 <= MIN_VOLUME
  /\ asked.speed > 0 => speed = asked.speed /\ rateReg = Rate(song, speed)
=============================================================================
