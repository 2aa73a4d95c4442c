\* MAX_LINE is longer than MAX_ARGS words, so that lines with too many words
\* are typed; the clock wraps within a sleep.
CONSTANTS
  MAX_LINE = 6
  MAX_ARGS = 3
  Inputs <- MCInputs
  NameOf <- MCNameOf
  DigitOf <- MCDigitOf
  WordLimit = 32
  PerSecond = 2
  timer_frequency = 2
SPECIFICATION Spec
INVARIANTS ArgsAreWords
PROPERTIES SleepExact BackToPrompt
