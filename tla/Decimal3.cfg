CONSTANT DIGITS = {3}
SPECIFICATION MCSpec
INVARIANT DecimalSurvives
