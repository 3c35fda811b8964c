\* Every sequential algorithm on every small input.
SPECIFICATION Spec
CHECK_DEADLOCK FALSE
CONSTANT Known = {0, 1, 2}
PROPERTIES
    
    AnswersAreRight
    IndexIsRight
    BitsAreRight
    LinesAreRight
    
    SelectsAreRight
    DriversAreTold
    NamesAreRight
    InstancesAreRight
